---- MODULE Spec2Model ----
(***************************************************************************)
(* Model of the semantic-retrieval core and the bulk-import pipeline of    *)
(* chatgpt-knowledge-manager:                                              *)
(*   - OpenAIService.chunk_text             (app/backend/openai_service.py)*)
(*   - OpenAIService.find_related_topics    (app/backend/openai_service.py)*)
(*   - stream_json_array, chunked_import    (app/utils/optimized_import.py)*)
(*   - parse_chatgpt_export, import_conversations (app/utils/chat_import.py)*)
(*   - AnalysisService                      (app/backend/analysis_service.py)*)
(* Each component has its own specification (SpecChunk, SpecRank, ...);    *)
(* the variables of the components a specification does not run stay at   *)
(* their idle values.                                                      *)
(***************************************************************************)
EXTENDS Integers, Sequences, FiniteSets, TLC

VARIABLES
    \* ---- chunk_text (one call) ----
    text,          \* the text argument, a sequence of characters
    chunk_size,    \* the chunk_size argument
    overlap,       \* the overlap argument
    start,         \* local `start`
    chunks,        \* local `chunks`: one record [start, end, chunk] per append
    chunk_pc,      \* "call" | "loop" | "done"
    \* ---- find_related_topics (one call) ----
    query_embedding,   \* the query vector
    all_embeddings,    \* the candidates: records [conv_id, embedding, text]
    top_n,             \* the top_n argument
    rank_result,       \* the returned list
    rank_pc,           \* "call" | "done"
    \* ---- stream_json_array (one generator, run to exhaustion) ----
    elements,          \* the source texts of the elements file_content is made of
    file_content,      \* the file_content argument, a sequence of characters
    yielded,           \* the objects the generator has yielded, in order
    stream_pc,         \* "call" | "done" | "raised"
    \* ---- the document store and the analysis pipeline ----
    conversations,     \* the conversations collection, in insertion order
    embeddings,        \* the embeddings collection, in insertion order
    last_call,         \* the last call of the AnalysisService and what it did
    \* ---- one import (chunked_import or import_conversations) ----
    import_args,       \* the importer and its arguments, and the environment
    import_pc,         \* "call" | "loop" | "batch" | "final" | "done" | "hung"
    stream_pos,        \* how many objects the stream has yielded
    import_chunk,      \* local `chunk`: the current batch
    batch_pos,         \* the object of the batch process_chunk is at (1-based)
    imported_count,    \* local `imported_count`
    callbacks,         \* the arguments of the callback's calls, in order
    import_results,    \* the results dict
    import_log,        \* what process_chunk did with each object, in order
    \* ---- the Export Tree Parser (one call on one element) ----
    parse_input,       \* the conv_data
    parse_result,      \* what the call did: [status, conversation]
    parse_pc,          \* "call" | "single" | "exported"
    \* ---- batch_generate_embeddings (one call) ----
    embed_texts,       \* the texts argument: records [tag, len, is_str, api]
    embed_pos,         \* how many texts the loop has been through
    embed_out,         \* local `embeddings`
    embed_log,         \* the logger's calls, in order
    embed_pc           \* "call" | "loop" | "done"

chunkVars == <<text, chunk_size, overlap, start, chunks, chunk_pc>>
rankVars == <<query_embedding, all_embeddings, top_n, rank_result, rank_pc>>

streamVars == <<elements, file_content, yielded, stream_pc>>

pipelineVars == <<conversations, embeddings, last_call>>

importVars == <<import_args, import_pc, stream_pos, import_chunk, batch_pos,
                imported_count, callbacks, import_results, import_log>>

parseVars == <<parse_input, parse_result, parse_pc>>

embedVars == <<embed_texts, embed_pos, embed_out, embed_log, embed_pc>>

vars == <<chunkVars, rankVars, streamVars, pipelineVars, importVars, parseVars, embedVars>>

\* What the actions of one component leave alone.
notChunk == <<rankVars, streamVars, pipelineVars, importVars, parseVars, embedVars>>
notRank == <<chunkVars, streamVars, pipelineVars, importVars, parseVars, embedVars>>
notStream == <<chunkVars, rankVars, pipelineVars, importVars, parseVars, embedVars>>
notPipeline == <<chunkVars, rankVars, streamVars, importVars, parseVars, embedVars>>
notImport == <<chunkVars, rankVars, streamVars, pipelineVars, parseVars, embedVars>>
notParse == <<chunkVars, rankVars, streamVars, pipelineVars, importVars, embedVars>>
notEmbed == <<chunkVars, rankVars, streamVars, pipelineVars, importVars, parseVars>>

(***************************************************************************)
(* Generic helpers                                                         *)
(***************************************************************************)
Min(a, b) == IF a < b THEN a ELSE b
Max(a, b) == IF a > b THEN a ELSE b

\* Python's normalisation of a slice bound i for a sequence of length n.
PyBound(i, n) == IF i < 0 THEN Max(i + n, 0) ELSE Min(i, n)

\* Python's s[i:j] (0-based, half open, negative bounds counted from the end).
PySlice(s, i, j) ==
    LET lo == PyBound(i, Len(s))
        hi == PyBound(j, Len(s))
    IN  IF lo >= hi THEN <<>> ELSE SubSeq(s, lo + 1, hi)

\* Python's s.rfind(sub, i, j) for a two-character sub: the highest 0-based
\* index p with lo <= p and p + 2 <= hi at which sub occurs, else -1.
PyRFind2(s, sub, i, j) ==
    LET lo == PyBound(i, Len(s))
        hi == PyBound(j, Len(s))
        hits == {p \in lo..(hi - 2) : s[p + 1] = sub[1] /\ s[p + 2] = sub[2]}
    IN  IF hits = {} THEN -1 ELSE CHOOSE p \in hits : \A q \in hits : q <= p

(***************************************************************************)
(* Bounds of the chunker model                                             *)
(***************************************************************************)
MaxTextLen == 5
MaxChunkSize == 4
MaxChunks == 5

Alphabet == {"a", " ", ".", "?"}
Texts == UNION {[1..n -> Alphabet] : n \in 0..MaxTextLen}

(***************************************************************************)
(* chunk_text                                                              *)
(***************************************************************************)
\* The latest sentence break in the window [st, en): max of the three rfinds.
LatestPunctuation(t, st, en) ==
    Max(PyRFind2(t, <<".", " ">>, st, en),
        Max(PyRFind2(t, <<"?", " ">>, st, en),
            PyRFind2(t, <<"!", " ">>, st, en)))

\* `end` of one iteration of the while loop that begins at `st`.
ChunkEndMissingBreak(t, cs, st) == Min(st + cs, Len(t))

ChunkEnd(t, cs, st) ==
    LET raw == Min(st + cs, Len(t))
        p == LatestPunctuation(t, st, raw)
    IN  IF raw < Len(t) /\ p # -1 THEN p + 2 ELSE raw

\* `start` for the next iteration.
NextStartNoOverlap(en, ov) == en

NextStart(en, ov) == en - ov

StreamIdle ==
    /\ elements = <<>>
    /\ file_content = <<>>
    /\ yielded = <<>>
    /\ stream_pc = "idle"

RankIdle ==
    /\ query_embedding = <<>>
    /\ all_embeddings = <<>>
    /\ top_n = 0
    /\ rank_result = <<>>
    /\ rank_pc = "idle"

ChunkIdle ==
    /\ text = <<>>
    /\ chunk_size = 0
    /\ overlap = 0
    /\ start = 0
    /\ chunks = <<>>
    /\ chunk_pc = "idle"

NoCall ==
    [op |-> "none", conv_id |-> 0, status |-> "", user |-> "", mode |-> "",
     ranked |-> FALSE, candidates |-> <<>>, result |-> <<>>, calls |-> <<>>,
     query_len |-> 0, chat |-> "", suggested |-> <<>>]

PipelineIdle ==
    /\ conversations = <<>>
    /\ embeddings = <<>>
    /\ last_call = NoCall

ImportIdle ==
    /\ import_args = [importer |-> "none"]
    /\ import_pc = "idle"
    /\ stream_pos = 0
    /\ import_chunk = <<>>
    /\ batch_pos = 0
    /\ imported_count = 0
    /\ callbacks = <<>>
    /\ import_results = [total_processed |-> 0, total |-> 0, success |-> 0, error |-> 0,
                  conversation_ids |-> <<>>, failed |-> FALSE]
    /\ import_log = <<>>

ParseIdle ==
    /\ parse_input = [is_dict |-> FALSE]
    /\ parse_result = [status |-> "idle"]
    /\ parse_pc = "idle"

EmbedIdle ==
    /\ embed_texts = <<>>
    /\ embed_pos = 0
    /\ embed_out = <<>>
    /\ embed_log = <<>>
    /\ embed_pc = "idle"

InitChunk ==
    /\ text \in Texts
    /\ chunk_size \in 1..MaxChunkSize
    /\ overlap \in 0..(chunk_size - 1)
    /\ start = 0
    /\ chunks = <<>>
    /\ chunk_pc = "call"
    /\ RankIdle
    /\ StreamIdle
    /\ PipelineIdle
    /\ ImportIdle
    /\ ParseIdle
    /\ EmbedIdle

\* len(text) <= chunk_size: return [text].
ChunkWhole ==
    /\ chunk_pc = "call"
    /\ Len(text) <= chunk_size
    /\ chunks' = <<[start |-> 0, end |-> Len(text), chunk |-> text]>>
    /\ chunk_pc' = "done"
    /\ UNCHANGED <<text, chunk_size, overlap, start>>
    /\ UNCHANGED notChunk

\* len(text) > chunk_size: chunks = [], start = 0, enter the loop.
ChunkEnter ==
    /\ chunk_pc = "call"
    /\ Len(text) > chunk_size
    /\ start' = 0
    /\ chunks' = <<>>
    /\ chunk_pc' = "loop"
    /\ UNCHANGED <<text, chunk_size, overlap>>
    /\ UNCHANGED notChunk

\* One iteration of `while start < len(text)`.
ChunkLoop ==
    /\ chunk_pc = "loop"
    /\ start < Len(text)
    /\ Len(chunks) < MaxChunks
    /\ LET en == ChunkEnd(text, chunk_size, start)
       IN  /\ chunks' = Append(chunks,
                   [start |-> start, end |-> en, chunk |-> PySlice(text, start, en)])
           /\ start' = NextStart(en, overlap)
    /\ UNCHANGED <<text, chunk_size, overlap, chunk_pc>>
    /\ UNCHANGED notChunk

\* The loop condition fails: return chunks.
ChunkReturn ==
    /\ chunk_pc = "loop"
    /\ start >= Len(text)
    /\ chunk_pc' = "done"
    /\ UNCHANGED <<text, chunk_size, overlap, start, chunks>>
    /\ UNCHANGED notChunk

NextChunk == ChunkWhole \/ ChunkEnter \/ ChunkLoop \/ ChunkReturn

SpecChunk == InitChunk /\ [][NextChunk]_vars

\* C1: for 0 < overlap < chunk_size, chunk_text terminates: its loop reaches
\* start >= len(text). Finite-run form: the loop is deterministic in `start`
\* (text, chunk_size and overlap never change), so a terminating run never
\* begins two iterations at the same `start`.
C1_ChunkTextTerminates ==
    (0 < overlap /\ overlap < chunk_size) =>
        \A i, j \in 1..Len(chunks) : i < j => chunks[i].start # chunks[j].start

\* C15: for len(text) > chunk_size the chunks cover the text with no gap:
\* the first starts at 0, each later one starts exactly `overlap` characters
\* before the end of the one before, the chunks without their leading
\* overlaps concatenate to the text, and the list ends with the chunk that
\* reaches the end of the text.
C15_ChunksCoverText ==
    (0 < overlap /\ overlap < chunk_size /\ Len(text) > chunk_size /\ chunks # <<>>) =>
        LET n == Len(chunks)
            fresh(i) == IF i = 1 THEN chunks[i].chunk
                        ELSE IF Len(chunks[i].chunk) <= overlap THEN <<>>
                        ELSE SubSeq(chunks[i].chunk, overlap + 1, Len(chunks[i].chunk))
            joined[i \in 0..n] == IF i = 0 THEN <<>> ELSE joined[i - 1] \o fresh(i)
        IN  /\ chunks[1].start = 0
            /\ \A i \in 1..(n - 1) :
                  /\ chunks[i + 1].start = chunks[i].end - overlap
                  /\ chunks[i + 1].start >= 0
                  /\ chunks[i + 1].chunk = SubSeq(text, chunks[i + 1].start + 1, chunks[i + 1].end)
                  /\ chunks[i].end < Len(text)
            /\ joined[n] = SubSeq(text, 1, chunks[n].end)
            /\ chunk_pc = "done" => chunks[n].end = Len(text)

\* C16: on every iteration of the loop 0 <= start < end <= len(text) and
\* end - start <= chunk_size, so every chunk appended is a non-empty piece of
\* the text of at most chunk_size characters.
C16_WindowWithinText ==
    (0 < overlap /\ overlap < chunk_size /\ Len(text) > chunk_size) =>
        \A i \in 1..Len(chunks) :
            /\ 0 <= chunks[i].start
            /\ chunks[i].start < chunks[i].end
            /\ chunks[i].end <= Len(text)
            /\ chunks[i].end - chunks[i].start <= chunk_size
            /\ chunks[i].chunk # <<>>
            /\ Len(chunks[i].chunk) <= chunk_size

(***************************************************************************)
(* find_related_topics: cosine similarity, sort, de-duplicated top N       *)
(***************************************************************************)
MaxCands == 5
MaxTopN == 2
PreviewLen == 200

ConvIds == {"c1", "c2"}
CandVectors == {<<0, 0>>, <<1, 0>>, <<1, 1>>}
QueryVectors == {<<0, 0>>, <<1, 0>>, <<0, 1>>, <<-1, 0>>}

\* The text of the candidate at position i: its position identifies it, and
\* its length sits on either side of the preview limit.
CandText(i) == [tag |-> i, len |-> IF i % 2 = 1 THEN PreviewLen ELSE PreviewLen + 1]

CandLists ==
    UNION {
        {[i \in 1..n |-> [conv_id |-> cv[i][1], embedding |-> cv[i][2], text |-> CandText(i)]] :
            cv \in [1..n -> ConvIds \X CandVectors]}
        : n \in 0..MaxCands}

RECURSIVE DotFrom(_, _, _)
DotFrom(a, b, i) == IF i > Len(a) THEN 0 ELSE a[i] * b[i] + DotFrom(a, b, i + 1)

\* np.dot(a, b)
Dot(a, b) == DotFrom(a, b, 1)

\* np.linalg.norm(a) squared
Norm2(a) == Dot(a, a)

\* A similarity score is the real number num / sqrt(den), where den is the
\* product of the two squared norms; den = 0 is the quotient 0.0 / 0.0 that
\* numpy evaluates to nan (with a warning, without raising).
IsNaN(x) == x.den = 0

\* np.dot(q, e) / (np.linalg.norm(q) * np.linalg.norm(e))
CosineSkipZero(q, e) == [num |-> Dot(q, e), den |-> Max(Norm2(q) * Norm2(e), 1)]

Cosine(q, e) == [num |-> Dot(q, e), den |-> Norm2(q) * Norm2(e)]

Sgn(n) == IF n < 0 THEN -1 ELSE IF n > 0 THEN 1 ELSE 0

\* x < y on floats: false whenever an operand is nan; otherwise the order of
\* the reals num/sqrt(den), compared on sgn(num)*num^2/den.
FloatLess(x, y) ==
    /\ ~IsNaN(x)
    /\ ~IsNaN(y)
    /\ Sgn(x.num) * x.num * x.num * y.den < Sgn(y.num) * y.num * y.num * x.den

Reverse(s) == [i \in 1..Len(s) |-> s[Len(s) + 1 - i]]

\* list.sort on a list shorter than 64 entries (CPython): the leading run is
\* found (and reversed when strictly descending), then the remaining entries
\* are placed by binary insertion. Every comparison is key(x) < key(y).
RECURSIVE RunEnd(_, _, _)
RunEnd(s, k, desc) ==
    IF k > Len(s) THEN k - 1
    ELSE IF desc = FloatLess(s[k].similarity, s[k - 1].similarity)
         THEN RunEnd(s, k + 1, desc)
         ELSE k - 1

RECURSIVE InsertPos(_, _, _, _)
InsertPos(s, pivot, l, r) ==
    IF l >= r THEN l
    ELSE LET p == l + ((r - l) \div 2)
         IN  IF FloatLess(pivot.similarity, s[p + 1].similarity)
             THEN InsertPos(s, pivot, l, p)
             ELSE InsertPos(s, pivot, p + 1, r)

RECURSIVE BinarySort(_, _)
BinarySort(s, n) ==
    IF n >= Len(s) THEN s
    ELSE LET pivot == s[n + 1]
             l == InsertPos(s, pivot, 0, n)
             moved == [i \in 1..Len(s) |->
                          IF i <= l THEN s[i]
                          ELSE IF i = l + 1 THEN pivot
                          ELSE IF i <= n + 1 THEN s[i - 1]
                          ELSE s[i]]
         IN  BinarySort(moved, n + 1)

SortAscending(s) ==
    IF Len(s) < 2 THEN s
    ELSE LET desc == FloatLess(s[2].similarity, s[1].similarity)
             n == RunEnd(s, 3, desc)
             run == IF desc
                    THEN [i \in 1..Len(s) |-> IF i <= n THEN s[n + 1 - i] ELSE s[i]]
                    ELSE s
         IN  BinarySort(run, n)

\* similarities.sort(key=lambda x: x[1], reverse=True): CPython reverses the
\* list, sorts it ascending and stably, and reverses it again.
SortUnsorted(s) == s

SortDescending(s) == Reverse(SortAscending(Reverse(s)))

\* text[:200] + "..." if len(text) > 200 else text
Preview(t) ==
    IF t.len > PreviewLen
    THEN [tag |-> t.tag, len |-> PreviewLen + 3, cut |-> TRUE]
    ELSE [tag |-> t.tag, len |-> t.len, cut |-> FALSE]

\* The loop over similarities[:top_n*2], from its entry i on.
RECURSIVE TakeTopNoDedup(_, _, _, _, _)
TakeTopNoDedup(s, i, n, seen, res) ==
    IF i > Min(Len(s), 2 * n) THEN res
    ELSE IF Len(res) < n
         THEN TakeTopNoDedup(s, i + 1, n, seen \cup {s[i].conv_id},
                  Append(res, [conversation_id |-> s[i].conv_id,
                               similarity_score |-> s[i].similarity,
                               text_preview |-> Preview(s[i].text)]))
         ELSE TakeTopNoDedup(s, i + 1, n, seen, res)

\* The loop run over the whole sorted list instead of its first 2*top_n
\* entries.
RECURSIVE TakeTopWholeList(_, _, _, _, _)
TakeTopWholeList(s, i, n, seen, res) ==
    IF i > Len(s) THEN res
    ELSE IF s[i].conv_id \notin seen /\ Len(res) < n
         THEN TakeTopWholeList(s, i + 1, n, seen \cup {s[i].conv_id},
                  Append(res, [conversation_id |-> s[i].conv_id,
                               similarity_score |-> s[i].similarity,
                               text_preview |-> Preview(s[i].text)]))
         ELSE TakeTopWholeList(s, i + 1, n, seen, res)

RECURSIVE TakeTop(_, _, _, _, _)
TakeTop(s, i, n, seen, res) ==
    IF i > Min(Len(s), 2 * n) THEN res
    ELSE IF s[i].conv_id \notin seen /\ Len(res) < n
         THEN TakeTop(s, i + 1, n, seen \cup {s[i].conv_id},
                  Append(res, [conversation_id |-> s[i].conv_id,
                               similarity_score |-> s[i].similarity,
                               text_preview |-> Preview(s[i].text)]))
         ELSE TakeTop(s, i + 1, n, seen, res)

\* The list `similarities` before the sort.
Similarities(q, cands) ==
    [i \in 1..Len(cands) |->
        [conv_id |-> cands[i].conv_id,
         similarity |-> Cosine(q, cands[i].embedding),
         text |-> cands[i].text]]

\* find_related_topics(query_embedding, all_embeddings, top_n)
FindRelatedTopics(q, cands, n) ==
    TakeTop(SortDescending(Similarities(q, cands)), 1, n, {}, <<>>)

InitRank ==
    /\ query_embedding \in QueryVectors
    /\ all_embeddings \in CandLists
    /\ top_n \in 1..MaxTopN
    /\ rank_result = <<>>
    /\ rank_pc = "call"
    /\ ChunkIdle
    /\ StreamIdle
    /\ PipelineIdle
    /\ ImportIdle
    /\ ParseIdle
    /\ EmbedIdle

RankCall ==
    /\ rank_pc = "call"
    /\ rank_result' = FindRelatedTopics(query_embedding, all_embeddings, top_n)
    /\ rank_pc' = "done"
    /\ UNCHANGED <<query_embedding, all_embeddings, top_n>>
    /\ UNCHANGED notRank

NextRank == RankCall

SpecRank == InitRank /\ [][NextRank]_vars

\* C3: the ranker returns at most top_n results, no two of them with the same
\* conversation id, in non-increasing order of similarity score (no result
\* is followed, anywhere later in the list, by one with a greater score).
C3_RankerTopNDistinctSorted ==
    rank_pc = "done" =>
        /\ Len(rank_result) <= top_n
        /\ \A i, j \in 1..Len(rank_result) :
              i < j =>
                 /\ rank_result[i].conversation_id # rank_result[j].conversation_id
                 /\ ~FloatLess(rank_result[i].similarity_score,
                               rank_result[j].similarity_score)

\* The candidates whose vector has a non-zero norm, in input order.
NonZeroCands == SelectSeq(all_embeddings, LAMBDA c : Norm2(c.embedding) # 0)

\* C4: a candidate with a zero-norm vector is excluded: no division by a zero
\* norm takes place, no result carries a score computed from such a candidate,
\* and the result is the ranking of the remaining candidates.
C4_ZeroNormExcluded ==
    (rank_pc = "done" /\ Norm2(query_embedding) # 0) =>
        /\ \A i \in 1..Len(rank_result) : ~IsNaN(rank_result[i].similarity_score)
        /\ rank_result = FindRelatedTopics(query_embedding, NonZeroCands, top_n)

\* The list `similarities` after the sort, and its slice [:top_n*2].
SortedSimilarities == SortDescending(Similarities(query_embedding, all_embeddings))

ScanWindow == SubSeq(SortedSimilarities, 1, Min(Len(all_embeddings), 2 * top_n))

ConvIdsOf(entries) == {entries[i].conv_id : i \in 1..Len(entries)}

\* C17: the results come only from the first 2*top_n entries of the sorted
\* candidate list: there are exactly min(top_n, number of distinct
\* conversation ids in that window) of them, each result is an entry of the
\* window, and an id that occurs only beyond the window is never returned,
\* even when fewer than top_n results were found.
C17_ResultsFromScanWindow ==
    rank_pc = "done" =>
        \A window \in {ScanWindow} :
            /\ Len(rank_result) = Min(top_n, Cardinality(ConvIdsOf(window)))
            /\ \A i \in 1..Len(rank_result) :
                  \E k \in 1..Len(window) :
                     /\ window[k].conv_id = rank_result[i].conversation_id
                     /\ window[k].similarity = rank_result[i].similarity_score

\* A call whose window holds fewer than top_n distinct ids while a further
\* id waits beyond the window.
C17_Witness ==
    /\ rank_pc = "done"
    /\ Len(rank_result) < top_n
    /\ Len(rank_result) > 0
    /\ Len(all_embeddings) > 2 * top_n
    /\ \E sorted \in {SortedSimilarities} :
          \E k \in (2 * top_n + 1)..Len(sorted) :
              sorted[k].conv_id \notin ConvIdsOf(SubSeq(sorted, 1, 2 * top_n))

\* Two scores neither of which is less than the other.
SameScore(x, y) == ~FloatLess(x, y) /\ ~FloatLess(y, x)

\* The property of C18 for a sorted list and a result list: equally scored
\* entries stand in input order (the tag of a text is its input position), and
\* each result is the best-scoring candidate of its conversation id, the
\* earliest in input order among the equally scored ones.
StableAndBest(ranked, res) ==
    /\ \A a, b \in 1..Len(ranked) :
          (a < b /\ SameScore(ranked[a].similarity, ranked[b].similarity)) =>
              ranked[a].text.tag < ranked[b].text.tag
    /\ \A i \in 1..Len(res) :
          \E j \in 1..Len(ranked) :
             /\ ranked[j].conv_id = res[i].conversation_id
             /\ ranked[j].similarity = res[i].similarity_score
             /\ Preview(ranked[j].text) = res[i].text_preview
             /\ \A k \in 1..Len(ranked) :
                   ranked[k].conv_id = ranked[j].conv_id =>
                      /\ ~FloatLess(ranked[j].similarity, ranked[k].similarity)
                      /\ (ranked[k].text.tag < ranked[j].text.tag =>
                             FloatLess(ranked[k].similarity, ranked[j].similarity))

\* C18: the sort is stable and every conversation id in the result carries
\* the score and preview of its highest-scoring candidate, the earliest in
\* input order among equally scored ones.
C18_StableSortBestCandidate ==
    rank_pc = "done" => StableAndBest(SortedSimilarities, rank_result)

(***************************************************************************)
(* JSON text: characters, values, serialisation and json.loads             *)
(***************************************************************************)
MaxElems == 2

Quote == "\""
Backslash == "\\"
Whitespace == {" ", "\n"}

Fail == [ok |-> FALSE]

RECURSIVE SkipWs(_, _)
SkipWs(s, i) == IF i <= Len(s) /\ s[i] \in Whitespace THEN SkipWs(s, i + 1) ELSE i

\* dict[key] = value: a repeated key keeps its place and takes the new value.
PutKey(members, key, value) ==
    IF \E m \in 1..Len(members) : members[m].key = key
    THEN [m \in 1..Len(members) |->
             IF members[m].key = key THEN [key |-> key, value |-> value] ELSE members[m]]
    ELSE Append(members, [key |-> key, value |-> value])

\* json.loads on the JSON subset of strings (escapes \" and \\), objects and
\* arrays: a recursive-descent parse from position i (1-based) giving
\* [ok, val, next], or Fail where json.loads raises JSONDecodeError.
RECURSIVE ParseStringBody(_, _, _)
ParseStringBody(s, i, acc) ==
    IF i > Len(s) THEN Fail
    ELSE IF s[i] = Quote THEN [ok |-> TRUE, val |-> [str |-> acc], next |-> i + 1]
    ELSE IF s[i] = Backslash
         THEN IF i + 1 <= Len(s) /\ s[i + 1] \in {Quote, Backslash}
              THEN ParseStringBody(s, i + 2, Append(acc, s[i + 1]))
              ELSE Fail
    ELSE IF s[i] = "\n" THEN Fail
    ELSE ParseStringBody(s, i + 1, Append(acc, s[i]))

RECURSIVE ParseValue(_, _)
RECURSIVE ParseMembers(_, _, _)
RECURSIVE ParseItems(_, _, _)

ParseValue(s, i0) ==
    LET i == SkipWs(s, i0)
    IN  IF i > Len(s) THEN Fail
        ELSE IF s[i] = Quote THEN ParseStringBody(s, i + 1, <<>>)
        ELSE IF s[i] = "{"
             THEN LET j == SkipWs(s, i + 1)
                  IN  IF j <= Len(s) /\ s[j] = "}"
                      THEN [ok |-> TRUE, val |-> [obj |-> <<>>], next |-> j + 1]
                      ELSE ParseMembers(s, j, <<>>)
        ELSE IF s[i] = "["
             THEN LET j == SkipWs(s, i + 1)
                  IN  IF j <= Len(s) /\ s[j] = "]"
                      THEN [ok |-> TRUE, val |-> [arr |-> <<>>], next |-> j + 1]
                      ELSE ParseItems(s, j, <<>>)
        ELSE Fail

ParseMembers(s, i0, acc) ==
    LET i == SkipWs(s, i0)
    IN  IF i > Len(s) \/ s[i] # Quote THEN Fail
        ELSE LET k == ParseStringBody(s, i + 1, <<>>)
             IN  IF ~k.ok THEN Fail
                 ELSE LET c == SkipWs(s, k.next)
                      IN  IF c > Len(s) \/ s[c] # ":" THEN Fail
                          ELSE LET v == ParseValue(s, c + 1)
                               IN  IF ~v.ok THEN Fail
                                   ELSE LET e == SkipWs(s, v.next)
                                            acc2 == PutKey(acc, k.val.str, v.val)
                                        IN  IF e > Len(s) THEN Fail
                                            ELSE IF s[e] = "}"
                                                 THEN [ok |-> TRUE, val |-> [obj |-> acc2],
                                                       next |-> e + 1]
                                            ELSE IF s[e] = ","
                                                 THEN ParseMembers(s, e + 1, acc2)
                                            ELSE Fail

ParseItems(s, i0, acc) ==
    LET v == ParseValue(s, i0)
    IN  IF ~v.ok THEN Fail
        ELSE LET e == SkipWs(s, v.next)
                 acc2 == Append(acc, v.val)
             IN  IF e > Len(s) THEN Fail
                 ELSE IF s[e] = "]"
                      THEN [ok |-> TRUE, val |-> [arr |-> acc2], next |-> e + 1]
                 ELSE IF s[e] = "," THEN ParseItems(s, e + 1, acc2)
                 ELSE Fail

\* json.loads(s): the value, or Fail when s is not one JSON value.
JsonLoads(s) ==
    LET v == ParseValue(s, 1)
    IN  IF v.ok /\ SkipWs(s, v.next) > Len(s) THEN [ok |-> TRUE, val |-> v.val] ELSE Fail

\* str.strip()
RECURSIVE StripRight(_)
StripRight(s) ==
    IF Len(s) > 0 /\ s[Len(s)] \in Whitespace THEN StripRight(SubSeq(s, 1, Len(s) - 1)) ELSE s

Strip(s) == StripRight(SubSeq(s, SkipWs(s, 1), Len(s)))

(***************************************************************************)
(* stream_json_array                                                       *)
(***************************************************************************)
\* The generator's locals before the first character.
ScanInit == [depth |-> 0, start |-> 0, in_string |-> FALSE, escape_next |-> FALSE,
             out |-> <<>>]

\* One iteration of `for i, char in enumerate(content)` (i is 0-based). The
\* trailing `while ... i += 1` changes only the loop variable, which the for
\* statement rebinds: it has no effect.
ScanStepBracesInStrings(content, st, i) ==
    LET char == content[i + 1]
        in_string == IF char = Quote /\ ~st.escape_next THEN ~st.in_string ELSE st.in_string
        escape_next == IF in_string /\ char = Backslash THEN ~st.escape_next ELSE FALSE
        base == [st EXCEPT !.in_string = in_string, !.escape_next = escape_next]
    IN  IF char = "{"
        THEN [base EXCEPT !.start = IF st.depth = 0 THEN i ELSE st.start,
                          !.depth = st.depth + 1]
        ELSE IF char = "}"
             THEN LET parsed == JsonLoads(PySlice(content, st.start, i + 1))
                  IN  IF st.depth - 1 = 0
                      THEN [base EXCEPT !.depth = 0,
                                        !.out = IF parsed.ok THEN Append(st.out, parsed.val)
                                                ELSE st.out]
                      ELSE [base EXCEPT !.depth = st.depth - 1]
        ELSE base

\* One iteration of the loop if a record that fails to parse ended the stream
\* (no try/except around json.loads): afterwards the depth never returns to 0.
ScanStepAbortOnBadRecord(content, st, i) ==
    LET char == content[i + 1]
        in_string == IF char = Quote /\ ~st.escape_next THEN ~st.in_string ELSE st.in_string
        escape_next == IF in_string /\ char = Backslash THEN ~st.escape_next ELSE FALSE
        base == [st EXCEPT !.in_string = in_string, !.escape_next = escape_next]
    IN  IF in_string THEN base
        ELSE IF char = "{"
             THEN [base EXCEPT !.start = IF st.depth = 0 THEN i ELSE st.start,
                               !.depth = st.depth + 1]
        ELSE IF char = "}"
             THEN LET parsed == JsonLoads(PySlice(content, st.start, i + 1))
                  IN  IF st.depth - 1 = 0
                      THEN IF parsed.ok
                           THEN [base EXCEPT !.depth = 0, !.out = Append(st.out, parsed.val)]
                           ELSE [base EXCEPT !.depth = Len(content) + 1]
                      ELSE [base EXCEPT !.depth = st.depth - 1]
        ELSE base

\* One iteration of the loop if a backslash inside a string always set
\* escape_next (`escape_next = True`) instead of toggling it: the second
\* backslash of an escaped backslash then escapes the quote after it.
ScanStepEscapeSet(content, st, i) ==
    LET char == content[i + 1]
        in_string == IF char = Quote /\ ~st.escape_next THEN ~st.in_string ELSE st.in_string
        escape_next == in_string /\ char = Backslash
        base == [st EXCEPT !.in_string = in_string, !.escape_next = escape_next]
    IN  IF in_string THEN base
        ELSE IF char = "{"
             THEN [base EXCEPT !.start = IF st.depth = 0 THEN i ELSE st.start,
                               !.depth = st.depth + 1]
        ELSE IF char = "}"
             THEN LET parsed == JsonLoads(PySlice(content, st.start, i + 1))
                  IN  IF st.depth - 1 = 0
                      THEN [base EXCEPT !.depth = 0,
                                        !.out = IF parsed.ok THEN Append(st.out, parsed.val)
                                                ELSE st.out]
                      ELSE [base EXCEPT !.depth = st.depth - 1]
        ELSE base

ScanStep(content, st, i) ==
    LET char == content[i + 1]
        in_string == IF char = Quote /\ ~st.escape_next THEN ~st.in_string ELSE st.in_string
        escape_next == IF in_string /\ char = Backslash THEN ~st.escape_next ELSE FALSE
        base == [st EXCEPT !.in_string = in_string, !.escape_next = escape_next]
    IN  IF in_string THEN base
        ELSE IF char = "{"
             THEN [base EXCEPT !.start = IF st.depth = 0 THEN i ELSE st.start,
                               !.depth = st.depth + 1]
        ELSE IF char = "}"
             THEN LET parsed == JsonLoads(PySlice(content, st.start, i + 1))
                  IN  IF st.depth - 1 = 0
                      THEN [base EXCEPT !.depth = 0,
                                        !.out = IF parsed.ok THEN Append(st.out, parsed.val)
                                                ELSE st.out]
                      ELSE [base EXCEPT !.depth = st.depth - 1]
        ELSE base

\* The generator's locals after the first n characters of content.
RECURSIVE ScanTo(_, _)
ScanTo(content, n) ==
    IF n = 0 THEN ScanInit ELSE ScanStep(content, ScanTo(content, n - 1), n - 1)

\* file_content.strip().startswith('[')
StartsWithBracket(fc) == Len(Strip(fc)) > 0 /\ Strip(fc)[1] = "["

\* content = file_content.strip()[1:]
ContentOf(fc) == PySlice(Strip(fc), 1, Len(Strip(fc)))

\* Everything stream_json_array(file_content) yields.
StreamJsonArray(fc) == ScanTo(ContentOf(fc), Len(ContentOf(fc))).out

(***************************************************************************)
(* Inputs of the stream model: arrays of well-formed objects and of bad    *)
(* records, in two layouts, and payloads that are not arrays               *)
(***************************************************************************)
\* String values that put braces, quotes and backslashes inside strings.
Strs ==
    {<<>>, <<"a">>, <<"{">>, <<"}">>, <<Quote>>, <<Backslash>>,
     <<Backslash, Quote>>, <<Quote, "}">>, <<Backslash, Backslash>>, <<"}", Backslash>>}

Member(k, v) == [key |-> k, value |-> v]

ObjectValues ==
    {[obj |-> <<>>]}
    \cup {[obj |-> <<Member(<<"k">>, [str |-> st])>>] : st \in Strs}
    \cup {[obj |-> <<Member(<<"}">>, [str |-> <<"{">>])>>],
          [obj |-> <<Member(<<"k">>, [obj |-> <<>>])>>],
          [obj |-> <<Member(<<"k">>, [obj |-> <<Member(<<"k">>, [str |-> <<"}">>])>>])>>],
          [obj |-> <<Member(<<"k">>, [arr |-> <<[obj |-> <<>>], [obj |-> <<>>]>>])>>]}

RECURSIVE Concat(_)
Concat(seqs) == IF seqs = <<>> THEN <<>> ELSE Head(seqs) \o Concat(Tail(seqs))

RECURSIVE Join(_, _)
Join(seqs, sep) ==
    IF seqs = <<>> THEN <<>>
    ELSE IF Len(seqs) = 1 THEN seqs[1]
    ELSE seqs[1] \o sep \o Join(Tail(seqs), sep)

EscapeChar(c) == IF c \in {Quote, Backslash} THEN <<Backslash, c>> ELSE <<c>>

SerString(chars) ==
    <<Quote>> \o Concat([i \in 1..Len(chars) |-> EscapeChar(chars[i])]) \o <<Quote>>

\* The JSON text of a value (json.dumps with separators (',', ':')).
RECURSIVE Ser(_)
Ser(v) ==
    IF "str" \in DOMAIN v THEN SerString(v.str)
    ELSE IF "obj" \in DOMAIN v
         THEN <<"{">>
              \o Join([i \in 1..Len(v.obj) |->
                         SerString(v.obj[i].key) \o <<":">> \o Ser(v.obj[i].value)], <<",">>)
              \o <<"}">>
    ELSE <<"[">> \o Join([i \in 1..Len(v.arr) |-> Ser(v.arr[i])], <<",">>) \o <<"]">>

ObjectTexts == {Ser(v) : v \in ObjectValues}

\* Records that are not JSON but whose braces (outside strings) and quotes
\* balance, so that the scanner delimits exactly the record:
\*   {k}   {"k"}   {"k":}   {{}}   {"k":"\a"}
BalancedBadTexts ==
    {<<"{", "k", "}">>,
     <<"{", Quote, "k", Quote, "}">>,
     <<"{", Quote, "k", Quote, ":", "}">>,
     <<"{", "{", "}", "}">>,
     <<"{", Quote, "k", Quote, ":", Quote, Backslash, "a", Quote, "}">>}

\* Records whose braces or quotes do not balance:
\*   {"k":"}   {"k":{}   {"k":"\"}   {}}
UnbalancedBadTexts ==
    {<<"{", Quote, "k", Quote, ":", Quote, "}">>,
     <<"{", Quote, "k", Quote, ":", "{", "}">>,
     <<"{", Quote, "k", Quote, ":", Quote, Backslash, Quote, "}">>,
     <<"{", "}", "}">>}

ElementTexts == ObjectTexts \cup BalancedBadTexts \cup UnbalancedBadTexts

ElementLists == UNION {[1..n -> ElementTexts] : n \in 0..MaxElems}

\* The array text of a list of element texts, tight or with whitespace.
ArrayText(elems, layout) ==
    IF layout = "tight"
    THEN <<"[">> \o Join(elems, <<",">>) \o <<"]">>
    ELSE <<" ", "[", "\n">> \o Join(elems, <<",", "\n", " ">>) \o <<"\n", "]", "\n">>

\* A payload whose top level is one object, not an array.
NotAnArray(elems) == Concat(elems)

InitStream ==
    /\ elements \in ElementLists
    /\ \E layout \in {"tight", "spaced", "object"} :
          file_content = IF layout = "object" THEN NotAnArray(elements)
                         ELSE ArrayText(elements, layout)
    /\ yielded = <<>>
    /\ stream_pc = "call"
    /\ ChunkIdle
    /\ RankIdle
    /\ PipelineIdle
    /\ ImportIdle
    /\ ParseIdle
    /\ EmbedIdle

\* `raise ValueError("Expected JSON array starting with '['")`
StreamReject ==
    /\ stream_pc = "call"
    /\ ~StartsWithBracket(file_content)
    /\ stream_pc' = "raised"
    /\ UNCHANGED <<elements, file_content, yielded>>
    /\ UNCHANGED notStream

\* The consumer runs the generator to exhaustion.
StreamRun ==
    /\ stream_pc = "call"
    /\ StartsWithBracket(file_content)
    /\ yielded' = StreamJsonArray(file_content)
    /\ stream_pc' = "done"
    /\ UNCHANGED <<elements, file_content>>
    /\ UNCHANGED notStream

NextStream == StreamReject \/ StreamRun

SpecStream == InitStream /\ [][NextStream]_vars

\* The input is a well-formed JSON array all of whose elements are objects.
WellFormedArrayOfObjects(fc) ==
    /\ JsonLoads(fc).ok
    /\ "arr" \in DOMAIN JsonLoads(fc).val
    /\ \A i \in 1..Len(JsonLoads(fc).val.arr) : "obj" \in DOMAIN JsonLoads(fc).val.arr[i]

\* C6: for a well-formed JSON array of objects, stream_json_array yields
\* exactly the elements of the fully parsed array, in order, each once.
C6_StreamYieldsTheElements ==
    (stream_pc = "done" /\ WellFormedArrayOfObjects(file_content)) =>
        yielded = JsonLoads(file_content).val.arr

\* Witness of C6: an array of two objects, the first holding a nested object or
\* a brace inside a string, has been streamed.
C6_Witness ==
    /\ stream_pc = "done"
    /\ WellFormedArrayOfObjects(file_content)
    /\ Len(yielded) = 2
    /\ \E m \in 1..Len(yielded[1].obj) :
          \/ "obj" \in DOMAIN yielded[1].obj[m].value
          \/ yielded[1].obj[m].value = [str |-> <<Quote, "}">>]

IsSuffix(a, b) == Len(a) <= Len(b) /\ SubSeq(b, Len(b) - Len(a) + 1, Len(b)) = a

\* The values of the well-formed objects among the elements after position i.
WellFormedAfter(i) ==
    LET later == SelectSeq(SubSeq(elements, i + 1, Len(elements)),
                           LAMBDA e : JsonLoads(e).ok)
    IN  [j \in 1..Len(later) |-> JsonLoads(later[j]).val]

LexStep(content, lex, n) ==
    IF lex.mode = "out"
    THEN IF content[n] = Quote THEN [lex EXCEPT !.mode = "in"]
         ELSE IF content[n] = "{" THEN [lex EXCEPT !.open = lex.open + 1]
         ELSE IF content[n] = "}" THEN [lex EXCEPT !.open = lex.open - 1]
         ELSE lex
    ELSE IF lex.mode = "escaped" THEN [lex EXCEPT !.mode = "in"]
    ELSE IF content[n] = Backslash THEN [lex EXCEPT !.mode = "escaped"]
    ELSE IF content[n] = Quote THEN [lex EXCEPT !.mode = "out"]
    ELSE lex

RECURSIVE LexTo(_, _)
LexTo(content, n) ==
    IF n = 0 THEN [mode |-> "out", open |-> 0]
    ELSE LexStep(content, LexTo(content, n - 1), n)

\* C27: in stream_json_array, after every character the in_string flag tells
\* whether the scanner is inside a JSON string (strings with braces, escaped
\* quotes and runs of backslashes included), a character inside a string
\* never changes the depth, and for a well-formed array of objects the depth
\* is the number of '{' open outside strings and is never negative.
C27_InStringAndDepthFollowTheText ==
    stream_pc = "done" =>
        \A c \in {ContentOf(file_content)} :
            \A n \in 1..Len(c) :
                \A st \in {ScanTo(c, n)}, before \in {ScanTo(c, n - 1)},
                   lex \in {LexTo(c, n)}, lexBefore \in {LexTo(c, n - 1)} :
                    /\ st.in_string = (lex.mode # "out")
                    /\ lexBefore.mode # "out" => st.depth = before.depth
                    /\ WellFormedArrayOfObjects(file_content) =>
                          (st.depth = lex.open /\ st.depth >= 0)

\* A well-formed array has been streamed whose first object holds the string
\* "} after an escaped quote and whose second holds two backslashes: at the
\* brace inside the first string the scanner is in a string at depth 1.
C27_Witness ==
    /\ stream_pc = "done"
    /\ WellFormedArrayOfObjects(file_content)
    /\ elements = <<Ser([obj |-> <<Member(<<"k">>, [str |-> <<Quote, "}">>])>>]),
                    Ser([obj |-> <<Member(<<"k">>, [str |-> <<Backslash, Backslash>>])>>])>>
    /\ \E n \in 1..Len(ContentOf(file_content)) :
          /\ ContentOf(file_content)[n] = "}"
          /\ ScanTo(ContentOf(file_content), n).in_string
          /\ ScanTo(ContentOf(file_content), n).depth = 1
    /\ Len(yielded) = 2

(***************************************************************************)
(* Export Tree Parser: one element of the payload (conv_data) to a         *)
(* Conversation. A conv_data is                                            *)
(*   [is_dict, title, title_is_str, mapping_kind, nodes] (title_is_str is   *)
(*   FALSE for a null title, which the Conversation model rejects),        *)
(*   mapping_kind one of                                                   *)
(*     "missing" (no 'mapping' key), "null" (None), "other" (a truthy      *)
(*     value that is not a dict), "dict" (nodes in key order);             *)
(* a node is [id, is_dict, parent_none, has_children, children, msg];      *)
(* a msg is [kind, role, text, create_time], kind one of                   *)
(*     "none" (no or empty 'message'), "no_content" (no 'content' key),    *)
(*     "bad_content" (content is not a dict, or parts holds a non-string), *)
(*     "ok" (text is the parts joined by spaces).                          *)
(***************************************************************************)
NodeIds(nodes) == {nodes[i].id : i \in 1..Len(nodes)}

\* raw_messages[node_id]
NodeOf(nodes, id) == nodes[CHOOSE i \in 1..Len(nodes) : nodes[i].id = id]

\* The root search (`for node_id, node in raw_messages.items()`), from entry i:
\* [raised, order] where order is message_order after the loop.
RECURSIVE FindRoot(_, _)
FindRoot(nodes, i) ==
    IF i > Len(nodes) THEN [raised |-> FALSE, order |-> <<>>]
    ELSE IF ~nodes[i].is_dict THEN [raised |-> TRUE, order |-> <<>>]
    ELSE IF nodes[i].parent_none /\ nodes[i].has_children /\ nodes[i].children # <<>>
         THEN [raised |-> FALSE, order |-> <<nodes[i].children[1]>>]
    ELSE FindRoot(nodes, i + 1)

\* The walk `while message_order[-1] in raw_messages and 'children' in ...`:
\* [raised, diverged, order]. A walk longer than the mapping has entered a
\* cycle of first children and never ends (diverged).
RECURSIVE FollowThreadLastChild(_, _)
FollowThreadLastChild(nodes, order) ==
    LET last == order[Len(order)]
    IN  IF Len(order) > Len(nodes) + 1
        THEN [raised |-> FALSE, diverged |-> TRUE, order |-> order]
        ELSE IF last \notin NodeIds(nodes)
        THEN [raised |-> FALSE, diverged |-> FALSE, order |-> order]
        ELSE IF ~NodeOf(nodes, last).is_dict
        THEN [raised |-> TRUE, diverged |-> FALSE, order |-> order]
        ELSE IF NodeOf(nodes, last).has_children /\ NodeOf(nodes, last).children # <<>>
        THEN FollowThreadLastChild(nodes,
                 Append(order, NodeOf(nodes, last).children[Len(NodeOf(nodes, last).children)]))
        ELSE [raised |-> FALSE, diverged |-> FALSE, order |-> order]

RECURSIVE FollowThread(_, _)
FollowThread(nodes, order) ==
    LET last == order[Len(order)]
    IN  IF Len(order) > Len(nodes) + 1
        THEN [raised |-> FALSE, diverged |-> TRUE, order |-> order]
        ELSE IF last \notin NodeIds(nodes)
        THEN [raised |-> FALSE, diverged |-> FALSE, order |-> order]
        ELSE IF ~NodeOf(nodes, last).is_dict
        THEN [raised |-> TRUE, diverged |-> FALSE, order |-> order]
        ELSE IF NodeOf(nodes, last).has_children /\ NodeOf(nodes, last).children # <<>>
        THEN FollowThread(nodes, Append(order, NodeOf(nodes, last).children[1]))
        ELSE [raised |-> FALSE, diverged |-> FALSE, order |-> order]

\* timestamp of a message: datetime.fromtimestamp(create_time) when
\* create_time is truthy, else datetime.utcnow() (create_time 0 stands for an
\* absent, null or zero create_time).
Timestamp(create_time) ==
    IF create_time # 0 THEN [clock |-> "export", t |-> create_time]
    ELSE [clock |-> "utcnow", t |-> 0]

\* The extraction loop `for msg_id in message_order`, from entry i:
\* [raised, messages].
RECURSIVE ExtractMessagesKeepSystem(_, _, _, _)
ExtractMessagesKeepSystem(nodes, order, i, acc) ==
    IF i > Len(order) THEN [raised |-> FALSE, messages |-> acc]
    ELSE IF order[i] \notin NodeIds(nodes)
    THEN ExtractMessagesKeepSystem(nodes, order, i + 1, acc)
    ELSE LET node == NodeOf(nodes, order[i])
         IN  IF ~node.is_dict THEN [raised |-> TRUE, messages |-> acc]
             ELSE IF node.msg.kind \in {"none", "no_content"}
                  THEN ExtractMessagesKeepSystem(nodes, order, i + 1, acc)
             ELSE IF node.msg.kind = "bad_content" THEN [raised |-> TRUE, messages |-> acc]
             ELSE IF node.msg.text # <<>>
                  THEN ExtractMessagesKeepSystem(nodes, order, i + 1,
                           Append(acc, [role |-> node.msg.role,
                                        content |-> node.msg.text,
                                        timestamp |-> Timestamp(node.msg.create_time)]))
             ELSE ExtractMessagesKeepSystem(nodes, order, i + 1, acc)

RECURSIVE ExtractMessages(_, _, _, _)
ExtractMessages(nodes, order, i, acc) ==
    IF i > Len(order) THEN [raised |-> FALSE, messages |-> acc]
    ELSE IF order[i] \notin NodeIds(nodes) THEN ExtractMessages(nodes, order, i + 1, acc)
    ELSE LET node == NodeOf(nodes, order[i])
         IN  IF ~node.is_dict THEN [raised |-> TRUE, messages |-> acc]
             ELSE IF node.msg.kind \in {"none", "no_content"}
                  THEN ExtractMessages(nodes, order, i + 1, acc)
             ELSE IF node.msg.kind = "bad_content" THEN [raised |-> TRUE, messages |-> acc]
             ELSE IF node.msg.role = "system"
                  THEN ExtractMessages(nodes, order, i + 1, acc)
             ELSE IF node.msg.text # <<>> /\ node.msg.role \in {"user", "assistant"}
                  THEN ExtractMessages(nodes, order, i + 1,
                           Append(acc, [role |-> node.msg.role,
                                        content |-> node.msg.text,
                                        timestamp |-> Timestamp(node.msg.create_time)]))
             ELSE ExtractMessages(nodes, order, i + 1, acc)

\* Conversation(user_id=..., title=..., messages=..., created_at=..., updated_at=...)
NewConversation(user, title, messages) ==
    [id |-> 0, user_id |-> user, title |-> title, messages |-> messages,
     tags |-> <<>>, categories |-> <<>>, summary |-> "", key_topics |-> <<>>,
     extracted_entities |-> <<>>, important_moments |-> <<>>,
     created_at |-> messages[1].timestamp,
     updated_at |-> messages[Len(messages)].timestamp]

NoConversation == [id |-> 0, user_id |-> "", title |-> "", messages |-> <<>>,
                   tags |-> <<>>, categories |-> <<>>, summary |-> "", key_topics |-> <<>>,
                   extracted_entities |-> <<>>, important_moments |-> <<>>,
                   created_at |-> Timestamp(0), updated_at |-> Timestamp(0)]

Outcome(status, conv) == [status |-> status, conversation |-> conv]

\* The body of the per-element try block, shared by parse_chatgpt_export and
\* parse_single_conversation. guarded is TRUE for parse_single_conversation,
\* whose walk tests `message_order and ...`; parse_chatgpt_export indexes
\* message_order[-1] of an empty list and raises IndexError. status is
\*   "ok" (a Conversation), "skipped" (no messages), "raised" (an exception
\*   reached the element's except clause), "diverged" (the walk never ends).
\* (ParseElementUncaught: the variant whose exceptions leave the try block.)
ParseElementUncaught(cd, user, guarded) ==
    IF ~cd.is_dict THEN Outcome("propagated", NoConversation)
    ELSE IF cd.mapping_kind \in {"missing", "null"} \/ (cd.mapping_kind = "dict" /\ cd.nodes = <<>>)
    THEN Outcome("skipped", NoConversation)
    ELSE IF cd.mapping_kind = "other" THEN Outcome("propagated", NoConversation)
    ELSE LET root == FindRoot(cd.nodes, 1)
         IN  IF root.raised THEN Outcome("propagated", NoConversation)
             ELSE IF root.order = <<>>
                  THEN IF guarded THEN Outcome("skipped", NoConversation)
                       ELSE Outcome("propagated", NoConversation)
             ELSE LET walk == FollowThread(cd.nodes, root.order)
                  IN  IF walk.diverged THEN Outcome("diverged", NoConversation)
                      ELSE IF walk.raised THEN Outcome("propagated", NoConversation)
                      ELSE LET ex == ExtractMessages(cd.nodes, walk.order, 1, <<>>)
                           IN  IF ex.raised THEN Outcome("propagated", NoConversation)
                               ELSE IF ex.messages = <<>>
                                    THEN Outcome("skipped", NoConversation)
                               ELSE IF ~cd.title_is_str
                                    THEN Outcome("propagated", NoConversation)
                               ELSE Outcome("ok", NewConversation(user, cd.title, ex.messages))

ParseElement(cd, user, guarded) ==
    IF ~cd.is_dict THEN Outcome("raised", NoConversation)
    ELSE IF cd.mapping_kind \in {"missing", "null"} \/ (cd.mapping_kind = "dict" /\ cd.nodes = <<>>)
    THEN Outcome("skipped", NoConversation)
    ELSE IF cd.mapping_kind = "other" THEN Outcome("raised", NoConversation)
    ELSE LET root == FindRoot(cd.nodes, 1)
         IN  IF root.raised THEN Outcome("raised", NoConversation)
             ELSE IF root.order = <<>>
                  THEN IF guarded THEN Outcome("skipped", NoConversation)
                       ELSE Outcome("raised", NoConversation)
             ELSE LET walk == FollowThread(cd.nodes, root.order)
                  IN  IF walk.diverged THEN Outcome("diverged", NoConversation)
                      ELSE IF walk.raised THEN Outcome("raised", NoConversation)
                      ELSE LET ex == ExtractMessages(cd.nodes, walk.order, 1, <<>>)
                           IN  IF ex.raised THEN Outcome("raised", NoConversation)
                               ELSE IF ex.messages = <<>>
                                    THEN Outcome("skipped", NoConversation)
                               ELSE IF ~cd.title_is_str
                                    THEN Outcome("raised", NoConversation)
                               ELSE Outcome("ok", NewConversation(user, cd.title, ex.messages))

\* parse_single_conversation(conv_data, user_id): a Conversation or None.
ParseSingleConversation(cd, user) == ParseElement(cd, user, TRUE)

(***************************************************************************)
(* The document store: the conversations and embeddings collections, each  *)
(* a sequence of documents in insertion order. The _id of a conversation   *)
(* is its position in `conversations` (no code path deletes one); 0 is the *)
(* id None of a Conversation that was never persisted.                     *)
(***************************************************************************)
DefaultChunkSize == 1000
DefaultOverlap == 200
EmbeddingLimit == 1000
ShortQueryLen == 10
TagLimit == 5

RoleChars(role) ==
    IF role = "user" THEN <<"u", "s", "e", "r">>
    ELSE <<"a", "s", "s", "i", "s", "t", "a", "n", "t">>

\* Conversation.full_text(): " ".join(f"{msg.role}: {msg.content}")
FullText(conv) ==
    Join([i \in 1..Len(conv.messages) |->
             RoleChars(conv.messages[i].role) \o <<":", " ">> \o conv.messages[i].content],
         <<" ">>)

\* not full_text or len(full_text.strip()) == 0
IsBlank(t) == Strip(t) = <<>>

\* chunk_text(text, chunk_size, overlap) as one call: the chunks, or diverged
\* when an iteration begins at a `start` an earlier iteration began at (the
\* loop is a function of `start`, so it then never ends).
RECURSIVE ChunkFrom(_, _, _, _, _, _)
ChunkFrom(t, cs, ov, st, acc, seen) ==
    IF st >= Len(t) THEN [diverged |-> FALSE, chunks |-> acc]
    ELSE IF st \in seen THEN [diverged |-> TRUE, chunks |-> acc]
    ELSE LET en == ChunkEnd(t, cs, st)
         IN  ChunkFrom(t, cs, ov, NextStart(en, ov), Append(acc, PySlice(t, st, en)),
                       seen \cup {st})

ChunkText(t, cs, ov) ==
    IF Len(t) <= cs THEN [diverged |-> FALSE, chunks |-> <<t>>]
    ELSE ChunkFrom(t, cs, ov, 0, <<>>, {})

\* A delete that removes nothing.
DeleteNothing(embs, id) == embs

\* collection.delete_many({"conversation_id": id})
DeleteByConversationId(embs, id) == SelectSeq(embs, LAMBDA e : e.conversation_id # id)

\* The embeddings of one conversation, in store order.
EmbeddingsOf(embs, id) == SelectSeq(embs, LAMBDA e : e.conversation_id = id)

\* ConversationEmbedding(conversation_id=..., ..., chunk_index=i)
NewEmbedding(conv, chunk, vector, i) ==
    [conversation_id |-> conv.id, conversation_title |-> conv.title,
     text_chunk |-> chunk, embedding |-> vector, chunk_index |-> i]

\* What the outside world does during one call of the pipeline:
\*   analysis      the dict analyze_conversation returns (it never raises)
\*   categories    "raise" (get_all_categories raises) or "ok"
\*   chat          what the chat API does in suggest_categories: [kind, text],
\*                 kind "ok" (text is the content of the response), "none"
\*                 (the content is None) or "raise" (the call raises, text
\*                 is str(e))
\*   update        "ok" | "raise"  (conversation_repo.update)
\*   delete        "ok" | "raise"  (delete_by_conversation_id)
\*   embed_fail    0, or the 1-based chunk whose generate_embedding raises
\*   vector        the vector generate_embedding returns
\*   insert        "ok" | "raise"  (batch_create); inserted: the documents
\*                 insert_many had written when it raised
\* status of _generate_and_store_embeddings:
\*   "no_id" | "empty" | "stored" | "failed" (an exception was logged) |
\*   "diverged" (chunk_text never returns)
GenerateAndStoreEmbeddings(conv, embs, ext) ==
    IF conv.id = 0 THEN [embeddings |-> embs, status |-> "no_id"]
    ELSE IF ext.delete = "raise" THEN [embeddings |-> embs, status |-> "failed"]
    ELSE LET kept == DeleteByConversationId(embs, conv.id)
             full == FullText(conv)
         IN  IF IsBlank(full) THEN [embeddings |-> kept, status |-> "empty"]
             ELSE LET ct == ChunkText(full, DefaultChunkSize, DefaultOverlap)
                  IN  IF ct.diverged THEN [embeddings |-> kept, status |-> "diverged"]
                      ELSE IF ext.embed_fail \in 1..Len(ct.chunks)
                           THEN [embeddings |-> kept, status |-> "failed"]
                      ELSE LET list == [i \in 1..Len(ct.chunks) |->
                                           NewEmbedding(conv, ct.chunks[i], ext.vector, i - 1)]
                           IN  IF ext.insert = "raise"
                               THEN [embeddings |->
                                        kept \o SubSeq(list, 1, Min(ext.inserted, Len(list) - 1)),
                                     status |-> "failed"]
                               ELSE [embeddings |-> kept \o list, status |-> "stored"]

\* The text chat_completion returns when the API call raises, before str(e):
\* "Error: Unable to get response from AI. "
ErrorPrefix ==
    <<"E", "r", "r", "o", "r", ":", " ", "U", "n", "a", "b", "l", "e", " ", "t", "o", " ",
      "g", "e", "t", " ", "r", "e", "s", "p", "o", "n", "s", "e", " ", "f", "r", "o", "m", " ",
      "A", "I", ".", " ">>

\* chat_completion(messages): [is_str, text]; it never raises, is_str is
\* FALSE for a response whose content is None.
ChatCompletion(chat) ==
    IF chat.kind = "raise" THEN [is_str |-> TRUE, text |-> ErrorPrefix \o chat.text]
    ELSE IF chat.kind = "none" THEN [is_str |-> FALSE, text |-> <<>>]
    ELSE [is_str |-> TRUE, text |-> chat.text]

\* str.split(","): the fields of t, acc being the field under way.
RECURSIVE SplitComma(_, _, _)
SplitComma(t, i, acc) ==
    IF i > Len(t) THEN <<acc>>
    ELSE IF t[i] = "," THEN <<acc>> \o SplitComma(t, i + 1, <<>>)
    ELSE SplitComma(t, i + 1, Append(acc, t[i]))

\* suggest_categories(conversation, existing_categories): the stripped
\* fields of the chat response; [] from its except clause, which None.split
\* reaches.
SuggestCategories(chat) ==
    IF ~ChatCompletion(chat).is_str THEN <<>>
    ELSE [i \in 1..Len(SplitComma(ChatCompletion(chat).text, 1, <<>>)) |->
             Strip(SplitComma(ChatCompletion(chat).text, 1, <<>>)[i])]

\* The slice taken whole.
TakeAll(s, n) == s

\* key_topics[:5]
Take(s, n) == SubSeq(s, 1, Min(n, Len(s)))

\* conversation_repo.update(id, update_data) on the stored document, and the
\* setattr loop on the conversation object: the fields of update_data (with
\* the updated_at that update adds to it) are set, every other field stays.
ApplyUpdate(doc, update_data) ==
    [doc EXCEPT !.summary = update_data.summary,
                !.key_topics = update_data.key_topics,
                !.extracted_entities = update_data.extracted_entities,
                !.important_moments = update_data.important_moments,
                !.tags = update_data.tags,
                !.categories = update_data.categories,
                !.updated_at = Timestamp(0)]

\* process_new_conversation(conversation): the stores afterwards, the
\* conversation object it returns and how far it got:
\*   "raised" (an exception reached its except clause, before any write),
\*   "no_id" (analysed, nothing written), or the re-embed step's status.
ProcessNewConversation(conv, convs, embs, ext) ==
    LET a == ext.analysis
        topics_used == conv.tags = <<>> /\ a.key_topics # <<>>
        cats_used == conv.categories = <<>>
        update_data ==
            [summary |-> a.summary, key_topics |-> a.key_topics,
             extracted_entities |-> a.extracted_entities,
             important_moments |-> a.important_moments,
             tags |-> IF topics_used THEN Take(a.key_topics, TagLimit) ELSE conv.tags,
             categories |-> IF cats_used THEN SuggestCategories(ext.chat)
                            ELSE conv.categories]
        updated == ApplyUpdate(conv, update_data)
        suggest_called == /\ cats_used
                          /\ ~(topics_used /\ ~a.topics_sliceable)
                          /\ ext.categories # "raise"
        unchanged == [conversations |-> convs, embeddings |-> embs, conversation |-> conv,
                      chat |-> IF suggest_called THEN ext.chat.kind ELSE "",
                      suggested |-> IF suggest_called THEN SuggestCategories(ext.chat)
                                    ELSE <<>>]
    IN  IF topics_used /\ ~a.topics_sliceable THEN unchanged @@ [status |-> "raised"]
        ELSE IF cats_used /\ ext.categories = "raise" THEN unchanged @@ [status |-> "raised"]
        ELSE IF conv.id = 0 THEN unchanged @@ [status |-> "no_id"]
        ELSE IF ext.update = "raise" THEN unchanged @@ [status |-> "raised"]
        ELSE LET g == GenerateAndStoreEmbeddings(updated, embs, ext)
             IN  [conversations |->
                      [convs EXCEPT ![conv.id] = ApplyUpdate(convs[conv.id], update_data)],
                  embeddings |-> g.embeddings, conversation |-> updated,
                  status |-> g.status, chat |-> unchanged.chat,
                  suggested |-> unchanged.suggested]

NoSummary == "No summary available"

\* One entry of the list search_conversations returns.
SearchEntry(conv, preview, score) ==
    [conversation_id |-> conv.id, title |-> conv.title,
     summary |-> IF conv.summary = "" THEN NoSummary ELSE conv.summary,
     text_preview |-> preview, similarity_score |-> score,
     created_at |-> conv.created_at, tags |-> conv.tags, categories |-> conv.categories]

\* collection.find().limit(limit): the first `limit` documents.
GetAllEmbeddings(embs, limit) == SubSeq(embs, 1, Min(limit, Len(embs)))

\* conversation_repo.get_by_id(id) finds a document
Found(convs, id) == id \in 1..Len(convs)

\* The list filtered_embeddings: the fetched embeddings whose conversation
\* exists and belongs to user_id, as (conversation_id, embedding, text_chunk).
FilterByUser(all, convs, user) ==
    LET mine == SelectSeq(all, LAMBDA e : /\ Found(convs, e.conversation_id)
                                          /\ convs[e.conversation_id].user_id = user)
    IN  [i \in 1..Len(mine) |->
            [conv_id |-> mine[i].conversation_id, embedding |-> mine[i].embedding,
             text |-> [tag |-> mine[i].text_chunk, len |-> Len(mine[i].text_chunk)]]]

\* The enrichment loop over the ranker's results, from entry i on.
RECURSIVE Enrich(_, _, _, _, _)
Enrich(results, convs, i, seen_ids, acc) ==
    IF i > Len(results) THEN acc
    ELSE LET id == results[i].conversation_id
         IN  IF id \in seen_ids THEN Enrich(results, convs, i + 1, seen_ids, acc)
             ELSE IF ~Found(convs, id)
                  THEN Enrich(results, convs, i + 1, seen_ids \cup {id}, acc)
             ELSE Enrich(results, convs, i + 1, seen_ids \cup {id},
                         Append(acc, SearchEntry(convs[id], results[i].text_preview,
                                                 results[i].similarity_score)))

\* The length test with the boundary on the other side.
IsShortQueryInclusive(query) == query.len <= ShortQueryLen

\* len(query) < 10
IsShortQuery(query) == query.len < ShortQueryLen

\* search_conversations(user_id, query, limit). query is [len, matches]:
\* its length and the ids the text index returns for it, best first. ext:
\*   store    "ok" | "raise" (a repository call raises)
\*   vector   "raise" or the vector generate_embedding returns for the query
\* mode: "keyword" | "semantic" | "failed" (the except clause returned []);
\* ranked: the ranker was called, with `candidates`;
\* calls: the collaborator methods called, in order (conversation_repo.search,
\* openai_service.generate_embedding, embedding_repo.get_all_embeddings,
\* openai_service.find_related_topics), the one that raised being the last.
SearchConversations(user, query, limit, convs, embs, ext) ==
    IF IsShortQuery(query)
    THEN IF ext.store = "raise"
         THEN [mode |-> "failed", ranked |-> FALSE, candidates |-> <<>>, result |-> <<>>,
               calls |-> <<"search">>]
         ELSE LET hits == Take(SelectSeq(query.matches,
                                   LAMBDA id : Found(convs, id)
                                               /\ convs[id].user_id = user), limit)
              IN  [mode |-> "keyword", ranked |-> FALSE, candidates |-> <<>>,
                   result |-> [i \in 1..Len(hits) |->
                                  [conversation_id |-> hits[i],
                                   title |-> convs[hits[i]].title,
                                   summary |-> IF convs[hits[i]].summary = ""
                                               THEN NoSummary
                                               ELSE convs[hits[i]].summary,
                                   created_at |-> convs[hits[i]].created_at,
                                   tags |-> convs[hits[i]].tags,
                                   categories |-> convs[hits[i]].categories]],
                   calls |-> <<"search">>]
    ELSE IF ext.vector = <<>>
    THEN [mode |-> "failed", ranked |-> FALSE, candidates |-> <<>>, result |-> <<>>,
          calls |-> <<"generate_embedding">>]
    ELSE IF ext.store = "raise"
    THEN [mode |-> "failed", ranked |-> FALSE, candidates |-> <<>>, result |-> <<>>,
          calls |-> <<"generate_embedding", "get_all_embeddings">>]
    ELSE LET all == GetAllEmbeddings(embs, EmbeddingLimit)
             filtered == FilterByUser(all, convs, user)
             results == FindRelatedTopics(ext.vector, filtered, limit)
         IN  [mode |-> "semantic", ranked |-> TRUE, candidates |-> filtered,
              result |-> Enrich(results, convs, 1, {}, <<>>),
              calls |-> <<"generate_embedding", "get_all_embeddings",
                          "find_related_topics">>]

\* The list formatted_embeddings of find_related_conversations: the fetched
\* embeddings that are not the source conversation's.
FormatOthers(all, conversation_id) ==
    LET others == SelectSeq(all, LAMBDA e : e.conversation_id # conversation_id)
    IN  [i \in 1..Len(others) |->
            [conv_id |-> others[i].conversation_id, embedding |-> others[i].embedding,
             text |-> [tag |-> others[i].text_chunk, len |-> Len(others[i].text_chunk)]]]

\* One entry of the list find_related_conversations returns.
RelatedEntry(conv, item) ==
    [conversation_id |-> item.conversation_id, title |-> conv.title,
     similarity_score |-> item.similarity_score, text_preview |-> item.text_preview,
     created_at |-> conv.created_at]

\* Its enrichment loop: every item whose conversation get_by_id finds.
EnrichRelated(related, convs) ==
    LET found == SelectSeq(related, LAMBDA item : Found(convs, item.conversation_id))
    IN  [i \in 1..Len(found) |-> RelatedEntry(convs[found[i].conversation_id], found[i])]

\* find_related_conversations(conversation_id, limit); store is "raise" when
\* a repository call raises (the except clause returns []). The embeddings of
\* a conversation sit in the collection in chunk_index order, the order
\* get_by_conversation_id sorts them into.
FindRelatedConversations(conversation_id, limit, convs, embs, store) ==
    IF store = "raise" THEN <<>>
    ELSE IF EmbeddingsOf(embs, conversation_id) = <<>> THEN <<>>
    ELSE LET query == EmbeddingsOf(embs, conversation_id)[1].embedding
             all == GetAllEmbeddings(embs, EmbeddingLimit)
             formatted == FormatOthers(all, conversation_id)
             related == FindRelatedTopics(query, formatted, limit)
         IN  EnrichRelated(related, convs)

(***************************************************************************)
(* The pipeline at work: sessions of Users process their conversations and *)
(* search. The store starts either small and unprocessed, or holding       *)
(* EmbeddingLimit - 1 or EmbeddingLimit processed conversations of another *)
(* user (one embedding each) followed by one fresh conversation.           *)
(* The methods are those of an AnalysisService whose repositories are in   *)
(* place; what its constructor does is AnalysisServiceInit, below.         *)
(***************************************************************************)
MaxConvs == 2

Users == {"u1", "u2"}
OtherUser == "u0"

ShortContent == <<"h", "i">>
LongContent == [i \in 1..DefaultChunkSize |-> "a"]

\* The content of a user message whose "user: content" is exactly
\* DefaultChunkSize characters long.
FullChunkContent == [i \in 1..(DefaultChunkSize - Len(RoleChars("user")) - 2) |-> "a"]

\* A conversation as the importer persisted it: one user message.
StoredConversation(id, user, content) ==
    [NewConversation(user, "t",
         <<[role |-> "user", content |-> content, timestamp |-> Timestamp(1)]>>)
     EXCEPT !.id = id]

AnalysisOk ==
    [summary |-> "s", key_topics |-> <<"t1", "t2", "t3", "t4", "t5", "t6">>,
     topics_sliceable |-> TRUE, extracted_entities |-> <<"e1">>,
     important_moments |-> <<"m1">>]

\* analyze_conversation's own except clause
AnalysisError ==
    [summary |-> "Error during analysis", key_topics |-> <<>>,
     topics_sliceable |-> TRUE, extracted_entities |-> <<>>, important_moments |-> <<>>]

\* the fallback analysis when the chat response is not JSON (among them the
\* error text chat_completion returns when the API call fails)
AnalysisFallback ==
    [summary |-> "Unable to generate summary", key_topics |-> <<"conversation">>,
     topics_sliceable |-> TRUE, extracted_entities |-> <<>>,
     important_moments |-> <<"Unable to extract insights">>]

\* "topics" of the model's JSON is neither a list nor a string: <<"?">>
\* stands for a truthy value that cannot be sliced.
AnalysisBadTopics ==
    [summary |-> "s", key_topics |-> <<"?">>,
     topics_sliceable |-> FALSE, extracted_entities |-> <<>>, important_moments |-> <<>>]

OkExt ==
    [analysis |-> AnalysisOk, categories |-> "ok",
     chat |-> [kind |-> "ok", text |-> <<" ", "c", "1", ",", " ", "c", "2">>],
     update |-> "ok", delete |-> "ok", embed_fail |-> 0, vector |-> <<1, 0>>,
     insert |-> "ok", inserted |-> 0]

\* The outcomes of the outside world: all well, or one departure from it.
ProcessExts ==
    {[OkExt EXCEPT !.analysis = a] : a \in {AnalysisOk, AnalysisError, AnalysisFallback, AnalysisBadTopics}}
    \cup {[OkExt EXCEPT !.vector = v] : v \in CandVectors}
    \cup {[OkExt EXCEPT !.categories = "raise"], [OkExt EXCEPT !.chat = [kind |-> "none", text |-> <<>>]],
          [OkExt EXCEPT !.update = "raise"], [OkExt EXCEPT !.delete = "raise"],
          [OkExt EXCEPT !.embed_fail = 1], [OkExt EXCEPT !.insert = "raise"]}

\* Stores of up to MaxConvs short conversations (the first one of a store of
\* several is u1's: the users are interchangeable), the stores of one long
\* conversation, and the store of one conversation of exactly one chunk.
FreshStores ==
    UNION {{[i \in 1..n |-> StoredConversation(i, f[i], ShortContent)] :
               f \in {g \in [1..n -> Users] : n > 1 => g[1] = "u1"}} : n \in 0..MaxConvs}
    \cup {<<StoredConversation(1, u, LongContent)>> : u \in Users}
    \cup {<<StoredConversation(1, "u1", FullChunkContent)>>}

\* n conversations of OtherUser, each processed, and their embeddings.
ProcessedConversation(i) ==
    [ProcessNewConversation(StoredConversation(1, OtherUser, ShortContent),
                            <<StoredConversation(1, OtherUser, ShortContent)>>,
                            <<>>, OkExt).conversation
     EXCEPT !.id = i]

FillerConversations(n) == [i \in 1..n |-> ProcessedConversation(i)]

FillerEmbeddings(n) ==
    [i \in 1..n |-> NewEmbedding(ProcessedConversation(i),
                                 FullText(ProcessedConversation(i)), OkExt.vector, 0)]

InitPipeline ==
    /\ \/ /\ conversations \in FreshStores
          /\ embeddings = <<>>
       \/ \E n \in {EmbeddingLimit - 1, EmbeddingLimit} :
             /\ conversations = FillerConversations(n)
                                   \o <<StoredConversation(n + 1, "u1", ShortContent)>>
             /\ embeddings = FillerEmbeddings(n)
    /\ last_call = NoCall
    /\ ChunkIdle
    /\ RankIdle
    /\ StreamIdle
    /\ ImportIdle
    /\ ParseIdle
    /\ EmbedIdle

\* The state after process_new_conversation on the stored conversation id
\* did r.
ProcessDone(r, id) ==
    /\ conversations' = r.conversations
    /\ embeddings' = r.embeddings
    /\ last_call' = [NoCall EXCEPT !.op = "process", !.conv_id = id,
                                   !.status = r.status, !.chat = r.chat,
                                   !.suggested = r.suggested]

\* A session calls process_new_conversation on one of its user's persisted
\* conversations (the buttons of the conversation view, the background
\* analysis after an import).
Process ==
    \E id \in 1..Len(conversations), ext \in ProcessExts :
        /\ conversations[id].user_id \in Users
        /\ ProcessDone(ProcessNewConversation(conversations[id], conversations,
                                              embeddings, ext), id)
        /\ UNCHANGED notPipeline

\* The Conversation objects a caller can hand to process_new_conversation
\* that are not a stored document as it stands: one that was never persisted
\* (id None), and the object of a persisted conversation with no messages
\* (full_text() is "" exactly when there is no message: every message
\* contributes "role: content").
DetachedObjects(convs) ==
    {StoredConversation(0, u, ShortContent) : u \in Users}
    \cup {[convs[id] EXCEPT !.messages = <<>>] :
             id \in {i \in 1..Len(convs) : convs[i].user_id \in Users}}

\* The outcomes of the outside world during such a call: all well, or the
\* store failing at the update or at the delete.
DetachedExts ==
    {OkExt, [OkExt EXCEPT !.update = "raise"], [OkExt EXCEPT !.delete = "raise"]}

ProcessDetachedDone(r, id) ==
    /\ conversations' = r.conversations
    /\ embeddings' = r.embeddings
    /\ last_call' = [NoCall EXCEPT !.op = "process_object", !.conv_id = id,
                                   !.status = r.status, !.chat = r.chat,
                                   !.suggested = r.suggested]

\* process_new_conversation called with such an object.
ProcessDetached ==
    \E obj \in DetachedObjects(conversations), ext \in DetachedExts :
        /\ ProcessDetachedDone(ProcessNewConversation(obj, conversations, embeddings, ext),
                               obj.id)
        /\ UNCHANGED notPipeline

\* The ids of the user's conversations, ascending.
IdsOf(convs, user) ==
    SelectSeq([i \in 1..Len(convs) |-> i], LAMBDA i : convs[i].user_id = user)

\* The queries a session sends: a short one, with the conversations the text
\* index matches it to (the user's, newest first), or one of ShortQueryLen
\* characters.
Queries(convs, user) ==
    {[len |-> ShortQueryLen - 1, matches |-> Reverse(IdsOf(convs, user))],
     [len |-> ShortQueryLen, matches |-> <<>>]}

SearchExts ==
    {[store |-> "ok", vector |-> v] : v \in {<<1, 0>>, <<0, 0>>, <<>>}}
    \cup {[store |-> "raise", vector |-> <<1, 0>>]}

\* A session calls search_conversations (the search page).
Search ==
    \E user \in Users, limit \in 1..MaxTopN, ext \in SearchExts :
      \E query \in Queries(conversations, user) :
        /\ LET r == SearchConversations(user, query, limit, conversations, embeddings, ext)
           IN  last_call' = [NoCall EXCEPT !.op = "search", !.user = user, !.mode = r.mode,
                                           !.ranked = r.ranked,
                                           !.candidates = r.candidates,
                                           !.result = r.result, !.calls = r.calls,
                                           !.query_len = query.len]
        /\ UNCHANGED <<conversations, embeddings>>
        /\ UNCHANGED notPipeline

\* The largest embeddings collection on which the model follows
\* find_related_conversations (its ranker sorts the whole collection).
MaxRelatedScan == 4

\* A session opens "Related Conversations" on one of its user's conversations
\* (the conversation view), which calls find_related_conversations with the
\* default limit or a smaller one.
FindRelated ==
    \E id \in 1..Len(conversations), limit \in 1..MaxTopN, store \in {"ok", "raise"} :
        /\ conversations[id].user_id \in Users
        /\ Len(embeddings) <= MaxRelatedScan
        /\ last_call' = [NoCall EXCEPT
                            !.op = "related", !.conv_id = id,
                            !.user = conversations[id].user_id,
                            !.status = store,
                            !.result = FindRelatedConversations(id, limit, conversations,
                                                                embeddings, store)]
        /\ UNCHANGED <<conversations, embeddings>>
        /\ UNCHANGED notPipeline

NextPipeline == Process \/ Search

SpecPipeline == InitPipeline /\ [][NextPipeline]_vars

\* C2: after every run of the re-embed step on a persisted conversation with
\* non-empty text, also a run in which an embedding call fails, the stored
\* embeddings of the conversation are exactly one per chunk of
\* chunk_text(full text), with chunk_index 0..n-1 each exactly once.
C2_StoredEmbeddingsMatchChunks ==
    (last_call.op = "process" /\ last_call.status \in {"stored", "failed"}) =>
        LET conv == conversations[last_call.conv_id]
            ct == ChunkText(FullText(conv), DefaultChunkSize, DefaultOverlap)
            stored == EmbeddingsOf(embeddings, conv.id)
        IN  /\ ~ct.diverged
            /\ Len(stored) = Len(ct.chunks)
            /\ \A i \in 1..Len(ct.chunks) :
                  \E k \in 1..Len(stored) :
                      /\ stored[k].chunk_index = i - 1
                      /\ stored[k].text_chunk = ct.chunks[i]

\* C5: when search_conversations calls the ranker (a query of 10 or more
\* characters), the candidates are exactly the stored embeddings whose
\* conversation the requesting user owns, however many embeddings are stored.
C5_CandidatesAreTheUsersEmbeddings ==
    (last_call.op = "search" /\ last_call.ranked) =>
        last_call.candidates = FilterByUser(embeddings, conversations, last_call.user)

\* What C20 says of one call that took the stores from (convs, embs) to the
\* outcome r: the call returned, it returned the conversation it was given
\* with its messages as they were, and no conversation record was deleted or
\* had its messages changed.
ReturnsConversationIntact(r, id, convs) ==
    /\ r.status # "diverged"
    /\ r.conversation.id = id
    /\ r.conversation.messages = convs[id].messages
    /\ Len(r.conversations) = Len(convs)
    /\ \A i \in 1..Len(convs) :
          /\ r.conversations[i].id = convs[i].id
          /\ r.conversations[i].messages = convs[i].messages

\* C20: every call of process_new_conversation returns the conversation,
\* whichever stage fails (analysis, category suggestion, the update, the
\* embedding call, the embedding store), and leaves every conversation
\* record in place with its messages unchanged.
C20_ProcessAlwaysReturnsConversation ==
    [][last_call'.op = "process" =>
          \A ext \in ProcessExts :
              (/\ ProcessNewConversation(conversations[last_call'.conv_id], conversations,
                                         embeddings, ext).conversations = conversations'
               /\ ProcessNewConversation(conversations[last_call'.conv_id], conversations,
                                         embeddings, ext).status = last_call'.status)
              => ReturnsConversationIntact(
                     ProcessNewConversation(conversations[last_call'.conv_id], conversations,
                                            embeddings, ext),
                     last_call'.conv_id, conversations)]_vars

\* C21: a call whose conversation has no id or whose full text is empty
\* skips the re-embed step entirely: it stores no embedding and leaves the
\* embeddings collection exactly as it was, the conversation's own earlier
\* embeddings included.
C21_SkippedReembedLeavesStore ==
    [][last_call'.op = "process_object" =>
          /\ last_call'.status # "stored"
          /\ embeddings' = embeddings]_vars

\* C22: a run of the pipeline changes a conversation's tags only when it had
\* none, and then to the first min(5, number of topics) topics of the
\* analysis in order; it changes its categories only when it had none;
\* non-empty tags and categories survive every run, and no other
\* conversation's tags or categories change.
C22_TagsAndCategoriesOnlyWhenEmpty ==
    [][last_call'.op \in {"process", "process_object"} =>
          /\ Len(conversations') = Len(conversations)
          /\ \A i \in 1..Len(conversations) :
                /\ conversations[i].tags # <<>> =>
                      conversations'[i].tags = conversations[i].tags
                /\ conversations[i].categories # <<>> =>
                      conversations'[i].categories = conversations[i].categories
                /\ i # last_call'.conv_id =>
                      /\ conversations'[i].tags = conversations[i].tags
                      /\ conversations'[i].categories = conversations[i].categories
                /\ conversations'[i].tags # conversations[i].tags =>
                      /\ Len(conversations'[i].tags) = Min(5, Len(conversations'[i].key_topics))
                      /\ \A k \in 1..Len(conversations'[i].tags) :
                            conversations'[i].tags[k] = conversations'[i].key_topics[k]]_vars

\* A conversation tagged from an analysis of one topic and analysed again
\* with six topics: the tag of the first run is still its only tag.
C22_Witness ==
    /\ last_call.op = "process"
    /\ last_call.conv_id \in 1..Len(conversations)
    /\ Len(conversations[last_call.conv_id].key_topics) = 6
    /\ conversations[last_call.conv_id].tags = <<"conversation">>
    /\ conversations[last_call.conv_id].categories # <<>>

\* The collaborator methods a search called.
Called(method) == \E i \in 1..Len(last_call.calls) : last_call.calls[i] = method

C24_ShortTextHasOneEmbedding ==
    (/\ last_call.op = "process"
     /\ last_call.status = "stored"
     /\ Len(FullText(conversations[last_call.conv_id])) <= 1000) =>
        \A stored \in {EmbeddingsOf(embeddings, last_call.conv_id)} :
            /\ Len(stored) = 1
            /\ stored[1].chunk_index = 0
            /\ stored[1].text_chunk = FullText(conversations[last_call.conv_id])

\* A conversation of exactly 1000 characters after its second successful
\* run: the first run tagged it from an analysis of one topic, the second
\* brought six topics.
C24_Witness ==
    /\ last_call.op = "process"
    /\ last_call.status = "stored"
    /\ Len(FullText(conversations[last_call.conv_id])) = 1000
    /\ Len(conversations[last_call.conv_id].key_topics) = 6
    /\ Len(conversations[last_call.conv_id].tags) = 1
    /\ Len(EmbeddingsOf(embeddings, last_call.conv_id)) = 1

(***************************************************************************)
(* The conversation view at work: sessions of Users analyse their          *)
(* conversations and open "Related Conversations" on them, while the chat  *)
(* API answers, answers without content, or fails; and callers hand        *)
(* process_new_conversation objects that are not stored documents.         *)
(***************************************************************************)
\* The outcomes of the outside world here: all well, one of the departures
\* of the chat API in suggest_categories, or another embedding vector.
ViewExts ==
    {OkExt,
     [OkExt EXCEPT !.chat = [kind |-> "none", text |-> <<>>]],
     [OkExt EXCEPT !.chat = [kind |-> "raise", text |-> <<"e", "r", "r">>]],
     [OkExt EXCEPT !.chat = [kind |-> "raise", text |-> <<"e", ",", " ", "r">>]],
     [OkExt EXCEPT !.vector = <<1, 1>>]}

InitView ==
    /\ conversations \in
          UNION {{[i \in 1..n |-> StoredConversation(i, f[i], ShortContent)] :
                     f \in [1..n -> Users]} : n \in 0..MaxConvs}
    /\ embeddings = <<>>
    /\ last_call = NoCall
    /\ ChunkIdle
    /\ RankIdle
    /\ StreamIdle
    /\ ImportIdle
    /\ ParseIdle
    /\ EmbedIdle

\* The "Analyze" and "Generate Embeddings" buttons of the conversation view.
Analyze ==
    \E id \in 1..Len(conversations), ext \in ViewExts :
        /\ conversations[id].user_id \in Users
        /\ ProcessDone(ProcessNewConversation(conversations[id], conversations,
                                              embeddings, ext), id)
        /\ UNCHANGED notPipeline

NextView == Analyze \/ ProcessDetached \/ FindRelated

SpecView == InitView /\ [][NextView]_vars

\* C29: find_related_conversations(conversation_id) returns only
\* conversations other than the source and owned by the source's user: no
\* result refers to the source itself or to a conversation of another user.
C29_RelatedAreOthersOfSameOwner ==
    last_call.op = "related" =>
        \A i \in 1..Len(last_call.result) :
            /\ last_call.result[i].conversation_id # last_call.conv_id
            /\ conversations[last_call.result[i].conversation_id].user_id
                  = conversations[last_call.conv_id].user_id

\* The category is the text chat_completion returns for a failed call.
IsErrorText(category) ==
    /\ Len(category) >= Len(ErrorPrefix)
    /\ SubSeq(category, 1, Len(ErrorPrefix)) = ErrorPrefix

\* C30: when the chat-completion call fails during category suggestion,
\* suggest_categories returns an empty list, and no conversation ever has a
\* category that is the text of an error message.
C30_FailedChatSuggestsNothing ==
    /\ (last_call.op \in {"process", "process_object"} /\ last_call.chat = "raise") =>
          last_call.suggested = <<>>
    /\ \A i \in 1..Len(conversations) :
          \A k \in 1..Len(conversations[i].categories) :
              ~IsErrorText(conversations[i].categories[k])

(***************************************************************************)
(* The importers: chunked_import (stream, batches, process_chunk) and      *)
(* import_conversations (parse_chatgpt_export, then persist and analyse).  *)
(***************************************************************************)
MaxPayload == 3
MaxBatch == 2

Node(id, parent_none, children, msg) ==
    [id |-> id, is_dict |-> TRUE, parent_none |-> parent_none, has_children |-> TRUE,
     children |-> children, msg |-> msg]

Msg(role, chars, create_time) ==
    [kind |-> "ok", role |-> role, text |-> chars, create_time |-> create_time]

NoMsg == [kind |-> "none", role |-> "", text |-> <<>>, create_time |-> 0]

ConvData(title, mapping_kind, nodes) ==
    [is_dict |-> TRUE, title |-> title, title_is_str |-> TRUE,
     mapping_kind |-> mapping_kind, nodes |-> nodes]

Root == Node("r", TRUE, <<"a">>, NoMsg)

UserA(children) == Node("a", FALSE, children, Msg("user", <<"h", "i">>, 5))

\* Well-formed elements: root -> a -> b, and root -> a.
Good1 ==
    ConvData("good1", "dict",
             <<Root, UserA(<<"b">>), Node("b", FALSE, <<>>, Msg("assistant", <<"y", "o">>, 0))>>)

Good2 == ConvData("good2", "dict", <<Root, UserA(<<>>)>>)

\* Malformed elements, by kind.
Malformed(kind) ==
    IF kind = "missing_mapping" THEN ConvData(kind, "missing", <<>>)
    ELSE IF kind = "null_mapping" THEN ConvData(kind, "null", <<>>)
    ELSE IF kind = "empty_mapping" THEN ConvData(kind, "dict", <<>>)
    ELSE IF kind = "mapping_not_dict" THEN ConvData(kind, "other", <<>>)
    ELSE IF kind = "no_root" THEN ConvData(kind, "dict", <<UserA(<<>>)>>)
    ELSE IF kind = "first_child_absent" THEN ConvData(kind, "dict", <<Root>>)
    ELSE IF kind = "later_child_absent" THEN ConvData(kind, "dict", <<Root, UserA(<<"x">>)>>)
    ELSE IF kind = "node_not_dict"
         THEN ConvData(kind, "dict", <<Root, [UserA(<<>>) EXCEPT !.is_dict = FALSE]>>)
    ELSE IF kind = "content_not_dict"
         THEN ConvData(kind, "dict",
                       <<Root, [UserA(<<>>) EXCEPT !.msg.kind = "bad_content"]>>)
    ELSE IF kind = "system_only"
         THEN ConvData(kind, "dict", <<Root, Node("a", FALSE, <<>>, Msg("system", <<"s">>, 5))>>)
    ELSE IF kind = "null_title"
         THEN [Good2 EXCEPT !.title = kind, !.title_is_str = FALSE]
    ELSE IF kind = "cycle"
         THEN ConvData(kind, "dict", <<Root, Node("a", FALSE, <<"r">>, NoMsg)>>)
    ELSE [ConvData(kind, "missing", <<>>) EXCEPT !.is_dict = FALSE]

\* The malformations of a conversation element: the mapping is missing, null,
\* empty or not a dict; no node is a root; a child id is absent from the
\* mapping; a node or a content is not a dict; and, besides these, an element
\* with only a system message, a null title, a first child that leads back to
\* the root, or that is not an object.
ListedKinds ==
    {"missing_mapping", "null_mapping", "empty_mapping", "mapping_not_dict", "no_root",
     "first_child_absent", "later_child_absent", "node_not_dict", "content_not_dict"}

MalformedKinds == ListedKinds \cup {"system_only", "null_title", "cycle", "not_an_object"}

\* What conversation_repo.create does for one conversation: "ok" (inserted,
\* the id returned), "raise" (PyMongoError), "none" (a falsy id: the return
\* process_chunk and import_conversations also provide for).
StoreOutcomes == {"ok", "raise", "none"}

\* The environment of one import: whether MongoDB can be reached and whether
\* OPENAI_API_KEY is set.
ImportEnvs ==
    {[connect |-> "ok", api_key |-> TRUE], [connect |-> "failed", api_key |-> TRUE],
     [connect |-> "ok", api_key |-> FALSE]}

\* Payloads: up to MaxPayload elements; at most one of them is malformed, and
\* the well-formed ones alternate between the two samples.
Element(i, bad, kind) ==
    IF i = bad THEN Malformed(kind) ELSE IF i % 2 = 1 THEN Good1 ELSE Good2

Payloads ==
    UNION {{[i \in 1..n |-> Element(i, bad, kind)] : bad \in 0..n, kind \in MalformedKinds}
           : n \in 0..MaxPayload}

\* The calls of one importer: every payload as an array in a working
\* environment, and the shortest payloads as a non-array or in an environment
\* where MongoDB or the API key is missing.
ImportInputs ==
    {[payload |-> p, is_array |-> TRUE, env |-> [connect |-> "ok", api_key |-> TRUE]] :
        p \in Payloads}
    \cup {[payload |-> p, is_array |-> a, env |-> e] :
             p \in {q \in Payloads : Len(q) <= 1}, a \in BOOLEAN, e \in ImportEnvs}

\* results as chunked_import and import_conversations build it. total is
\* import_conversations' "total", total_processed chunked_import's; failed is
\* TRUE for the dict with "error_message" that the outer except returns.
EmptyResults ==
    [total_processed |-> 0, total |-> 0, success |-> 0, error |-> 0,
     conversation_ids |-> <<>>, failed |-> FALSE]

FailureResults == [EmptyResults EXCEPT !.error = 1, !.failed = TRUE]

\* ConversationRepository.create on success: the document, with its _id.
Create(convs, conv) == Append(convs, [conv EXCEPT !.id = Len(convs) + 1])

\* One iteration of process_chunk's loop: [results, conversations, kind],
\* kind one of "skipped" (no conversation), "store_raised", "store_none",
\* "persisted", "diverged" (parse_single_conversation never returns).
ProcessOneSkipUncounted(cd, user, out, convs, res) ==
    LET p == ParseSingleConversation(cd, user)
        counted == [res EXCEPT !.total_processed = @ + 1]
    IN  IF p.status = "diverged"
        THEN [results |-> res, conversations |-> convs, kind |-> "diverged"]
        ELSE IF p.status # "ok"
        THEN [results |-> [res EXCEPT !.error = @ + 1],
              conversations |-> convs, kind |-> "skipped"]
        ELSE IF out = "raise"
        THEN [results |-> [counted EXCEPT !.error = @ + 1],
              conversations |-> convs, kind |-> "store_raised"]
        ELSE IF out = "none"
        THEN [results |-> [counted EXCEPT !.error = @ + 1],
              conversations |-> convs, kind |-> "store_none"]
        ELSE [results |-> [counted EXCEPT !.success = @ + 1,
                                          !.conversation_ids = Append(@, Len(convs) + 1)],
              conversations |-> Create(convs, p.conversation), kind |-> "persisted"]

ProcessOneIdOfFailedStore(cd, user, out, convs, res) ==
    LET p == ParseSingleConversation(cd, user)
        counted == [res EXCEPT !.total_processed = @ + 1]
    IN  IF p.status = "diverged"
        THEN [results |-> res, conversations |-> convs, kind |-> "diverged"]
        ELSE IF p.status # "ok"
        THEN [results |-> [counted EXCEPT !.error = @ + 1],
              conversations |-> convs, kind |-> "skipped"]
        ELSE IF out = "raise"
        THEN [results |-> [counted EXCEPT !.error = @ + 1],
              conversations |-> convs, kind |-> "store_raised"]
        ELSE IF out = "none"
        THEN [results |-> [counted EXCEPT !.error = @ + 1,
                                          !.conversation_ids = Append(@, 0)],
              conversations |-> convs, kind |-> "store_none"]
        ELSE [results |-> [counted EXCEPT !.success = @ + 1,
                                          !.conversation_ids = Append(@, Len(convs) + 1)],
              conversations |-> Create(convs, p.conversation), kind |-> "persisted"]

\* (ProcessParsedKeepEmpty: the variant without the test
\* `not conversation or not conversation.messages`.)
ProcessParsedKeepEmpty(p, out, convs, res) ==
    IF p.status = "diverged"
    THEN [results |-> res, conversations |-> convs, kind |-> "diverged"]
    ELSE IF out = "raise"
    THEN [results |-> [res EXCEPT !.total_processed = @ + 1, !.error = @ + 1],
          conversations |-> convs, kind |-> "store_raised"]
    ELSE IF out = "none"
    THEN [results |-> [res EXCEPT !.total_processed = @ + 1, !.error = @ + 1],
          conversations |-> convs, kind |-> "store_none"]
    ELSE [results |-> [res EXCEPT !.total_processed = @ + 1, !.success = @ + 1,
                                  !.conversation_ids = Append(@, Len(convs) + 1)],
          conversations |-> Create(convs, p.conversation), kind |-> "persisted"]

\* process_chunk's loop body once parse_single_conversation has returned p.
ProcessParsed(p, out, convs, res) ==
    IF p.status = "diverged"
    THEN [results |-> res, conversations |-> convs, kind |-> "diverged"]
    ELSE IF p.status # "ok"
    THEN [results |-> [res EXCEPT !.total_processed = @ + 1, !.error = @ + 1],
          conversations |-> convs, kind |-> "skipped"]
    ELSE IF out = "raise"
    THEN [results |-> [res EXCEPT !.total_processed = @ + 1, !.error = @ + 1],
          conversations |-> convs, kind |-> "store_raised"]
    ELSE IF out = "none"
    THEN [results |-> [res EXCEPT !.total_processed = @ + 1, !.error = @ + 1],
          conversations |-> convs, kind |-> "store_none"]
    ELSE [results |-> [res EXCEPT !.total_processed = @ + 1, !.success = @ + 1,
                                  !.conversation_ids = Append(@, Len(convs) + 1)],
          conversations |-> Create(convs, p.conversation), kind |-> "persisted"]

ProcessOne(cd, user, out, convs, res) ==
    ProcessParsed(ParseSingleConversation(cd, user), out, convs, res)

\* What stream_json_array yields for the payload: its objects (an element
\* that is not an object never opens a record at depth 0).
Streamed(payload) == SelectSeq(payload, LAMBDA cd : cd.is_dict)

\* A callback handed the number of the batch instead of the running count.
NotifyBatchNumber(calls, given, count) ==
    IF given THEN Append(calls, Len(calls) + 1) ELSE calls

\* `if callback: callback(count)`; the callback is the settings page's
\* update_progress, which returns normally.
Notify(calls, given, count) == IF given THEN Append(calls, count) ELSE calls

\* AnalysisService(): OpenAIService() raises ValueError without an API key,
\* ConversationRepository() raises when MongoDB cannot be reached, and
\* EmbeddingRepository() raises NameError: its __init__ reads the undefined
\* name db_instance. The constructor never returns "ok".
AnalysisServiceInit(env) ==
    IF ~env.api_key THEN "ValueError"
    ELSE IF env.connect = "failed" THEN "ConnectionFailure"
    ELSE "NameError"

\* parse_chatgpt_export on a list, given what the try block of each element
\* did: [hung, conversations], the Conversations of the elements whose try
\* block completes with messages, or hung when one of them never ends.
CollectParsed(parsed) ==
    [hung |-> \E i \in 1..Len(parsed) : parsed[i].status = "diverged",
     conversations |-> [i \in 1..Len(SelectSeq(parsed, LAMBDA p : p.status = "ok")) |->
                          SelectSeq(parsed, LAMBDA p : p.status = "ok")[i].conversation]]

ParseChatgptExport(payload, user) ==
    CollectParsed([i \in 1..Len(payload) |-> ParseElement(payload[i], user, FALSE)])

\* The loop `for conversation in conversations` of import_conversations,
\* from entry i on: [results, conversations, embeddings, hung].
RECURSIVE ImportEach(_, _, _, _, _, _, _)
\* The rest of an iteration once the conversation has id `id` and
\* process_new_conversation has returned r.
ImportAnalysed(parsed, i, outs, ext, res, id, r) ==
    ImportEach(parsed, i + 1, outs, ext, r.conversations, r.embeddings,
               [res EXCEPT !.conversation_ids = Append(@, id), !.success = @ + 1])

ImportEach(parsed, i, outs, ext, convs, embs, res) ==
    IF i > Len(parsed)
    THEN [results |-> res, conversations |-> convs, embeddings |-> embs, hung |-> FALSE]
    ELSE IF outs[i] # "ok"
    THEN ImportEach(parsed, i + 1, outs, ext, convs, embs, [res EXCEPT !.error = @ + 1])
    ELSE ImportAnalysed(parsed, i, outs, ext, res, Len(convs) + 1,
                        ProcessNewConversation(Create(convs, parsed[i])[Len(convs) + 1],
                                               Create(convs, parsed[i]), embs, ext))

\* import_conversations once parse_chatgpt_export has returned p.
ImportParsed(p, outs, ext, convs, embs) ==
    IF p.hung
    THEN [results |-> EmptyResults, conversations |-> convs, embeddings |-> embs,
          hung |-> TRUE]
    ELSE ImportEach(p.conversations, 1, outs, ext, convs, embs,
                    [EmptyResults EXCEPT !.total = Len(p.conversations)])

\* parse_chatgpt_export(file_content, user_id) raises: json.loads fails, or
\* its value is not a list (ValueError), both re-raised by the except clause.
ParseChatgptExportRaises(is_array) == ~is_array

\* import_conversations(file_content, user_id): [results, conversations,
\* embeddings, hung], hung when parse_chatgpt_export never returns.
ImportConversations(payload, is_array, user, env, outs, ext, convs, embs) ==
    IF env.connect = "failed" \/ AnalysisServiceInit(env) # "ok"
       \/ ParseChatgptExportRaises(is_array)
    THEN [results |-> FailureResults, conversations |-> convs, embeddings |-> embs,
          hung |-> FALSE]
    ELSE ImportParsed(ParseChatgptExport(payload, user), outs, ext, convs, embs)

InitImport ==
    /\ \E input \in ImportInputs, user \in Users :
          \/ \E size \in 1..MaxBatch, given \in BOOLEAN :
                import_args = [importer |-> "chunked", payload |-> input.payload,
                               is_array |-> input.is_array, user |-> user, env |-> input.env,
                               chunk_size |-> size, callback |-> given]
          \/ import_args = [importer |-> "legacy", payload |-> input.payload,
                            is_array |-> input.is_array, user |-> user, env |-> input.env,
                            chunk_size |-> 0, callback |-> FALSE]
    /\ import_pc = "call"
    /\ stream_pos = 0
    /\ import_chunk = <<>>
    /\ batch_pos = 0
    /\ imported_count = 0
    /\ callbacks = <<>>
    /\ import_results = EmptyResults
    /\ import_log = <<>>
    /\ ChunkIdle
    /\ RankIdle
    /\ StreamIdle
    /\ PipelineIdle
    /\ ParseIdle
    /\ EmbedIdle

\* chunked_import up to the loop: conversation_repo = ConversationRepository()
\* and the results dict; an exception goes to the outer except clause.
ImportOpen ==
    /\ import_pc = "call"
    /\ import_args.importer = "chunked"
    /\ IF import_args.env.connect = "failed"
       THEN import_results' = FailureResults /\ import_pc' = "done"
       ELSE import_results' = EmptyResults /\ import_pc' = "loop"
    /\ UNCHANGED <<import_args, stream_pos, import_chunk, batch_pos, imported_count,
                   callbacks, import_log>>
    /\ UNCHANGED notImport

\* A payload that does not start with '[' taken for an empty array.
ImportRejectAsEmpty ==
    /\ import_pc = "loop"
    /\ ~import_args.is_array
    /\ import_results' = EmptyResults
    /\ import_pc' = "done"
    /\ UNCHANGED <<import_args, stream_pos, import_chunk, batch_pos, imported_count,
                   callbacks, import_log>>
    /\ UNCHANGED notImport

\* The generator's first step raises ValueError for a payload that does not
\* start with '[': the outer except clause returns the failure dict.
ImportReject ==
    /\ import_pc = "loop"
    /\ ~import_args.is_array
    /\ import_results' = FailureResults
    /\ import_pc' = "done"
    /\ UNCHANGED <<import_args, stream_pos, import_chunk, batch_pos, imported_count,
                   callbacks, import_log>>
    /\ UNCHANGED notImport

\* One iteration of `for conv_data in conversations_stream` up to the test
\* `len(chunk) >= chunk_size`.
ImportPull ==
    /\ import_pc = "loop"
    /\ import_args.is_array
    /\ stream_pos < Len(Streamed(import_args.payload))
    /\ stream_pos' = stream_pos + 1
    /\ import_chunk' = Append(import_chunk, Streamed(import_args.payload)[stream_pos + 1])
    /\ IF Len(import_chunk') >= import_args.chunk_size
       THEN import_pc' = "batch" /\ batch_pos' = 1
       ELSE import_pc' = "loop" /\ batch_pos' = batch_pos
    /\ UNCHANGED <<import_args, imported_count, callbacks, import_results, import_log>>
    /\ UNCHANGED notImport

\* The state after one iteration of process_chunk's loop that did r.
ObjectDone(r) ==
    /\ import_results' = r.results
    /\ conversations' = r.conversations
    /\ import_log' = Append(import_log, [kind |-> r.kind, cd |-> import_chunk[batch_pos]])
    /\ IF r.kind = "diverged"
       THEN import_pc' = "hung" /\ batch_pos' = batch_pos
       ELSE import_pc' = import_pc /\ batch_pos' = batch_pos + 1

\* One iteration of process_chunk's loop, in a full batch or in the last one.
ImportObject ==
    /\ import_pc \in {"batch", "final"}
    /\ batch_pos <= Len(import_chunk)
    /\ \E out \in StoreOutcomes :
          ObjectDone(ProcessOne(import_chunk[batch_pos], import_args.user, out,
                                conversations, import_results))
    /\ UNCHANGED <<import_args, stream_pos, import_chunk, imported_count, callbacks>>
    /\ UNCHANGED <<chunkVars, rankVars, streamVars, embeddings, last_call, parseVars, embedVars>>

\* After process_chunk of a full batch: clear the chunk, count, report.
ImportBatchEnd ==
    /\ import_pc = "batch"
    /\ batch_pos > Len(import_chunk)
    /\ import_chunk' = <<>>
    /\ batch_pos' = 0
    /\ imported_count' = imported_count + import_args.chunk_size
    /\ callbacks' = Notify(callbacks, import_args.callback, imported_count')
    /\ import_pc' = "loop"
    /\ UNCHANGED <<import_args, stream_pos, import_results, import_log>>
    /\ UNCHANGED notImport

\* The stream is exhausted: `if chunk:` starts the last batch, else return.
ImportDrain ==
    /\ import_pc = "loop"
    /\ import_args.is_array
    /\ stream_pos = Len(Streamed(import_args.payload))
    /\ IF import_chunk # <<>>
       THEN import_pc' = "final" /\ batch_pos' = 1
       ELSE import_pc' = "done" /\ batch_pos' = batch_pos
    /\ UNCHANGED <<import_args, stream_pos, import_chunk, imported_count, callbacks,
                   import_results, import_log>>
    /\ UNCHANGED notImport

\* After process_chunk of the last batch: report and return results.
ImportFinalEnd ==
    /\ import_pc = "final"
    /\ batch_pos > Len(import_chunk)
    /\ callbacks' = Notify(callbacks, import_args.callback,
                           imported_count + Len(import_chunk))
    /\ import_pc' = "done"
    /\ UNCHANGED <<import_args, stream_pos, import_chunk, batch_pos, imported_count,
                   import_results, import_log>>
    /\ UNCHANGED notImport

\* The state after import_conversations did r.
LegacyDone(r) ==
    /\ import_results' = r.results
    /\ conversations' = r.conversations
    /\ embeddings' = r.embeddings
    /\ import_pc' = IF r.hung THEN "hung" ELSE "done"

\* import_conversations, as one call.
LegacyImport ==
    /\ import_pc = "call"
    /\ import_args.importer = "legacy"
    /\ \E outs \in [1..Len(import_args.payload) -> StoreOutcomes], ext \in ProcessExts :
          LegacyDone(ImportConversations(import_args.payload, import_args.is_array,
                                         import_args.user, import_args.env, outs, ext,
                                         conversations, embeddings))
    /\ UNCHANGED <<import_args, stream_pos, import_chunk, batch_pos, imported_count,
                   callbacks, import_log>>
    /\ UNCHANGED <<chunkVars, rankVars, streamVars, last_call, parseVars, embedVars>>

NextImport ==
    \/ ImportOpen
    \/ ImportReject
    \/ ImportPull
    \/ ImportObject
    \/ ImportBatchEnd
    \/ ImportDrain
    \/ ImportFinalEnd
    \/ LegacyImport

SpecImport == InitImport /\ [][NextImport]_vars

C8_MalformedElementIsSkipped ==
    (/\ import_pc = "done"
     /\ import_args.is_array
     /\ import_args.env = [connect |-> "ok", api_key |-> TRUE]
     /\ \A i \in 1..Len(import_args.payload) :
           import_args.payload[i].title \in {"good1", "good2"} \cup ListedKinds
     /\ \E i \in 1..Len(import_args.payload) :
           import_args.payload[i].title \in ListedKinds) =>
        LET good == SelectSeq(import_args.payload,
                              LAMBDA cd : cd.title \in {"good1", "good2"})
            store_failed ==
                IF import_args.importer = "chunked"
                THEN \E i \in 1..Len(import_log) :
                        import_log[i].kind \in {"store_raised", "store_none"}
                ELSE import_results.error > 0
        IN  /\ ~import_results.failed
            /\ \A i \in 1..Len(conversations) : conversations[i].title \in {"good1", "good2"}
            /\ ~store_failed =>
                  /\ Len(conversations) = Len(good)
                  /\ \A i \in 1..Len(good) : conversations[i].title = good[i].title

\* C10: in chunked_import a conversation the store fails on counts one error
\* and records no id, the objects after it are still processed, and
\* len(conversation_ids) = success throughout.
C10_FailedStoreCountsOneError ==
    (import_args.importer = "chunked" /\ ~import_results.failed) =>
        LET done == SelectSeq(import_log, LAMBDA e : e.kind # "diverged")
            persisted == SelectSeq(done, LAMBDA e : e.kind = "persisted")
            streamed == Streamed(import_args.payload)
        IN  /\ Len(import_results.conversation_ids) = import_results.success
            /\ import_results.success = Len(persisted)
            /\ import_results.error = Len(done) - Len(persisted)
            /\ import_results.total_processed = Len(done)
            /\ Len(conversations) = Len(persisted)
            /\ \A k \in 1..Len(import_results.conversation_ids) :
                  import_results.conversation_ids[k] = k
            /\ \A i \in 1..Len(import_log) : import_log[i].cd = streamed[i]
            /\ import_pc = "done" => Len(import_log) = Len(streamed)

\* A finished chunked import in batches of two whose first object the store
\* failed on, and whose second (same batch) and third (next batch) objects
\* were persisted.
C10_Witness ==
    /\ import_args.importer = "chunked"
    /\ import_pc = "done"
    /\ import_args.chunk_size = 2
    /\ Len(import_log) = 3
    /\ import_log[1].kind \in {"store_raised", "store_none"}
    /\ import_log[2].kind = "persisted"
    /\ import_log[3].kind = "persisted"
    /\ import_results.error = 1
    /\ import_results.conversation_ids = <<1, 2>>

\* C13: an element whose walk retains no message produces no Conversation
\* and nothing is persisted for it: every persisted conversation has at
\* least one message, and the created ids are those of persisted
\* conversations only.
C13_NoEmptyConversationPersisted ==
    /\ \A i \in 1..Len(conversations) : conversations[i].messages # <<>>
    /\ \A k \in 1..Len(import_results.conversation_ids) :
          /\ import_results.conversation_ids[k] \in 1..Len(conversations)
          /\ conversations[import_results.conversation_ids[k]].messages # <<>>
    /\ \A i \in 1..Len(import_log) :
          import_log[i].cd.title \in {"system_only", "missing_mapping", "null_mapping",
                                      "empty_mapping", "no_root", "first_child_absent"}
              => import_log[i].kind = "skipped"
    /\ (import_pc = "done" /\ ~import_results.failed) =>
          Len(import_results.conversation_ids) = Len(conversations)

\* A finished chunked import that skipped an element with only a system
\* message and persisted a conversation after it.
C13_Witness ==
    /\ import_args.importer = "chunked"
    /\ import_pc = "done"
    /\ \E i \in 1..Len(import_log) :
          /\ import_log[i].cd.title = "system_only"
          /\ import_log[i].kind = "skipped"
          /\ \E j \in (i + 1)..Len(import_log) : import_log[j].kind = "persisted"
    /\ import_results.conversation_ids # <<>>

\* C25: a payload whose top level is not a JSON array is rejected as a
\* whole: parse_chatgpt_export raises, and when either importer returns, its
\* result is the failure dict (success 0, error 1, an error message, no
\* conversation id), no callback was made and no conversation was persisted
\* at any moment of the import.
C25_NonArrayRejected ==
    (import_args.importer \in {"chunked", "legacy"} /\ ~import_args.is_array) =>
        /\ ParseChatgptExportRaises(import_args.is_array)
        /\ conversations = <<>>
        /\ callbacks = <<>>
        /\ import_pc \in {"call", "loop", "done"}
        /\ import_pc = "done" =>
              /\ import_results.success = 0
              /\ import_results.error = 1
              /\ import_results.failed
              /\ import_results.conversation_ids = <<>>
              /\ import_results.total_processed = 0
              /\ import_results.total = 0

\* chunked_import returned from a one-element non-array payload with the
\* store reachable.
C25_Witness ==
    /\ import_args.importer = "chunked"
    /\ ~import_args.is_array
    /\ import_args.env.connect = "ok"
    /\ Len(import_args.payload) = 1
    /\ import_pc = "done"
    /\ import_results.failed

\* C26: in chunked_import (batch size >= 1) every call of the progress
\* callback comes after all objects of the batches so far were processed: its
\* argument is results.total_processed at that moment, which is the number of
\* objects gone through process_chunk, k * chunk_size for a full k-th batch;
\* the arguments are strictly increasing; and when the import returns, the
\* last argument is the number of objects streamed (and there was a call if
\* any object was streamed).
C26_CallbackReportsProcessedCount ==
    [][import_args.importer = "chunked" =>
          /\ callbacks' # callbacks =>
                /\ callbacks' = Append(callbacks, import_results.total_processed)
                /\ import_results' = import_results
                /\ import_results.total_processed = Len(import_log)
                /\ import_results.total_processed = stream_pos
                /\ import_results.total_processed =
                      Min(Len(callbacks') * import_args.chunk_size,
                          Len(Streamed(import_args.payload)))
          /\ \A k \in 1..(Len(callbacks') - 1) : callbacks'[k] < callbacks'[k + 1]
          /\ (import_pc' = "done" /\ callbacks' # <<>>) =>
                callbacks'[Len(callbacks')] = Len(Streamed(import_args.payload))
          /\ (/\ import_pc' = "done"
              /\ import_args.callback
              /\ import_args.is_array
              /\ import_args.env.connect = "ok"
              /\ Streamed(import_args.payload) # <<>>) => callbacks' # <<>>]_vars

\* A finished import whose callback was called with 2 after the first batch
\* of two and with 3 after the last batch of one.
C26_Witness ==
    /\ import_args.importer = "chunked"
    /\ import_pc = "done"
    /\ callbacks = <<2, 3>>
    /\ import_results.total_processed = 3

\* message_order after the walk over the mapping of conv_data has run for as
\* long as the model follows it (one step more than the mapping has nodes).
WalkedOrder(cd) ==
    IF cd.is_dict /\ cd.mapping_kind = "dict" /\ ~FindRoot(cd.nodes, 1).raised
       /\ FindRoot(cd.nodes, 1).order # <<>>
    THEN FollowThread(cd.nodes, FindRoot(cd.nodes, 1).order).order
    ELSE <<>>

\* C28: the first-child walk ends for every mapping, mappings in which a node
\* lists an ancestor as its first child included, and message_order never
\* holds more ids than the mapping has nodes: no import hangs in the walk.
C28_FirstChildWalkTerminates ==
    /\ import_pc # "hung"
    /\ \A i \in 1..Len(import_log) :
          /\ import_log[i].kind # "diverged"
          /\ Len(WalkedOrder(import_log[i].cd)) <= Len(import_log[i].cd.nodes)

(***************************************************************************)
(* The parser on trees: a mapping of up to MaxNodes nodes n1, n2, ... in   *)
(* which n1 is the root and the parent of every other node precedes it.    *)
(* Every node carries a message, the root included; a message's text names *)
(* its node.                                                               *)
(***************************************************************************)
MaxNodes == 4

NodeNames == <<"n1", "n2", "n3", "n4", "n5", "n6">>

\* The parents of nodes 2..n: the node before, or the one before that.
Shapes(n) == {p \in [2..n -> 1..n] : \A i \in 2..n : p[i] < i /\ p[i] >= i - 2}

\* node i's 'children' list: its children by number, ascending or descending.
ChildList(n, parent, i, descending) ==
    LET asc == SelectSeq([k \in 1..n |-> k], LAMBDA j : j > 1 /\ parent[j] = i)
        names == [k \in 1..Len(asc) |-> NodeNames[asc[k]]]
    IN  IF descending THEN Reverse(names) ELSE names

\* The messages a node can carry; create_time 0 is an absent create_time.
MessageKinds == {"none", "user", "assistant_now", "system", "tool", "empty"}

MessageOf(kind, i) ==
    IF kind = "none" THEN NoMsg
    ELSE IF kind = "user" THEN Msg("user", <<NodeNames[i]>>, i)
    ELSE IF kind = "assistant_now" THEN Msg("assistant", <<NodeNames[i]>>, 0)
    ELSE IF kind = "system" THEN Msg("system", <<NodeNames[i]>>, i)
    ELSE IF kind = "tool" THEN Msg("tool", <<NodeNames[i]>>, i)
    ELSE Msg("user", <<>>, i)

\* The conv_data of a tree; the mapping lists the nodes in number order, or
\* in reverse when the children lists are descending.
TreeData(n, parent, descending, kinds) ==
    LET listed == [i \in 1..n |->
                      Node(NodeNames[i], i = 1, ChildList(n, parent, i, descending),
                           IF i = 1 THEN MessageOf("user", 1) ELSE MessageOf(kinds[i], i))]
    IN  ConvData("tree", "dict", IF descending THEN Reverse(listed) ELSE listed)

Trees ==
    UNION {{TreeData(n, parent, descending, kinds) :
               parent \in Shapes(n), descending \in BOOLEAN, kinds \in [2..n -> MessageKinds]}
           : n \in 1..MaxNodes}

InitParse ==
    /\ parse_input \in Trees
    /\ parse_result = Outcome("none", NoConversation)
    /\ parse_pc = "call"
    /\ ChunkIdle
    /\ RankIdle
    /\ StreamIdle
    /\ PipelineIdle
    /\ ImportIdle
    /\ EmbedIdle

\* parse_single_conversation(conv_data, user_id)
ParseSingle ==
    /\ parse_pc = "call"
    /\ parse_result' = ParseSingleConversation(parse_input, "u1")
    /\ parse_pc' = "single"
    /\ UNCHANGED parse_input
    /\ UNCHANGED notParse

\* The try block of parse_chatgpt_export for one element.
ParseExported ==
    /\ parse_pc = "call"
    /\ parse_result' = ParseElement(parse_input, "u1", FALSE)
    /\ parse_pc' = "exported"
    /\ UNCHANGED parse_input
    /\ UNCHANGED notParse

NextParse == ParseSingle \/ ParseExported

SpecParse == InitParse /\ [][NextParse]_vars

\* The instant a timestamp stands for. The create_time values of an export
\* lie in the past of the import, so a reading of the clock (utcnow) is later
\* than every one of them; the readings of one call are taken as one instant.
Now == 9

TimeValue(ts) == IF ts.clock = "utcnow" THEN Now ELSE ts.t

(***************************************************************************)
(* Properties of the Export Tree Parser.                                   *)
(***************************************************************************)
\* C11: for a mapping that is a tree, the messages are taken exactly from the
\* nodes on the path from the root's first child along first children, in
\* path order; the root and the nodes of other branches contribute nothing.
C11_MessagesFollowFirstChildPath ==
    parse_pc \in {"single", "exported"} =>
        LET nodes == parse_input.nodes
            ids == NodeIds(nodes)
            parent[id \in ids] ==
                IF NodeOf(nodes, id).parent_none THEN id
                ELSE CHOOSE p \in ids :
                        \E k \in 1..Len(NodeOf(nodes, p).children) :
                           NodeOf(nodes, p).children[k] = id
            depth[id \in ids] == IF parent[id] = id THEN 0 ELSE depth[parent[id]] + 1
            onPath[id \in ids] ==
                /\ parent[id] # id
                /\ NodeOf(nodes, parent[id]).children[1] = id
                /\ parent[parent[id]] = parent[id] \/ onPath[parent[id]]
            kept == {id \in ids :
                        /\ onPath[id]
                        /\ NodeOf(nodes, id).msg.kind = "ok"
                        /\ NodeOf(nodes, id).msg.role \in {"user", "assistant"}
                        /\ NodeOf(nodes, id).msg.text # <<>>}
            msgs == parse_result.conversation.messages
        IN  /\ parse_result.status \in {"ok", "skipped", "raised"}
            /\ parse_result.status # "ok" => kept = {}
            /\ parse_result.status = "ok" =>
                  /\ Len(msgs) = Cardinality(kept)
                  /\ \A k \in 1..Len(msgs) :
                        \E id \in kept :
                           /\ msgs[k].content = NodeOf(nodes, id).msg.text
                           /\ msgs[k].role = NodeOf(nodes, id).msg.role
                           /\ Cardinality({j \in kept : depth[j] < depth[id]}) = k - 1

\* A tree of four nodes that all carry a user message, parsed to two
\* messages: the root and a node of another branch gave none.
C11_Witness ==
    /\ parse_pc = "single"
    /\ parse_result.status = "ok"
    /\ Len(parse_input.nodes) = 4
    /\ \A i \in 1..4 : parse_input.nodes[i].msg.role = "user"
                       /\ parse_input.nodes[i].msg.text # <<>>
    /\ Len(parse_result.conversation.messages) = 2

\* C12: every message of a produced Conversation has role user or assistant
\* and non-empty text; system, other-role and empty-text nodes give no
\* message, and the messages keep the order of the walk.
C12_OnlyUserAssistantNonEmpty ==
    (parse_pc \in {"single", "exported"} /\ parse_result.status = "ok") =>
        LET nodes == parse_input.nodes
            ids == NodeIds(nodes)
            msgs == parse_result.conversation.messages
            source(k) == CHOOSE id \in ids : <<id>> = msgs[k].content
            below[id \in ids] ==
                UNION {{c} \cup below[c] :
                          c \in {NodeOf(nodes, id).children[i] :
                                    i \in 1..Len(NodeOf(nodes, id).children)}}
        IN  /\ msgs # <<>>
            /\ \A k \in 1..Len(msgs) :
                  /\ msgs[k].role \in {"user", "assistant"}
                  /\ msgs[k].content # <<>>
                  /\ \E id \in ids : <<id>> = msgs[k].content
                  /\ NodeOf(nodes, source(k)).msg.role = msgs[k].role
            /\ \A k \in 1..(Len(msgs) - 1) : source(k + 1) \in below[source(k)]

\* A chain of four nodes with a system node and a node of another role on
\* it, parsed to the one message that remains.
C12_Witness ==
    /\ parse_pc = "exported"
    /\ parse_result.status = "ok"
    /\ Len(parse_input.nodes) = 4
    /\ \A i \in 1..4 : Len(parse_input.nodes[i].children) <= 1
    /\ \E i \in 1..4 : parse_input.nodes[i].msg.role = "system"
    /\ \E i \in 1..4 : parse_input.nodes[i].msg.role = "tool"
    /\ Len(parse_result.conversation.messages) = 1

\* C14: a produced Conversation has created_at = its first message's
\* timestamp, updated_at = its last message's timestamp, and
\* updated_at >= created_at whatever the create_time values are.
C14_UpdatedNotBeforeCreated ==
    (parse_pc \in {"single", "exported"} /\ parse_result.status = "ok") =>
        LET conv == parse_result.conversation
        IN  /\ conv.created_at = conv.messages[1].timestamp
            /\ conv.updated_at = conv.messages[Len(conv.messages)].timestamp
            /\ TimeValue(conv.updated_at) >= TimeValue(conv.created_at)

(***************************************************************************)
(* generate_embedding and batch_generate_embeddings                        *)
(***************************************************************************)
MaxTexts == 3
TruncateLimit == 30000
EmbeddingDim == 1536

\* One item of `texts`: its length, whether it is a str at all (len(None)
\* raises TypeError inside generate_embedding's try), and what
\* openai.embeddings.create does when it is called for the item.
TextItems ==
    {[len |-> l, is_str |-> TRUE, api |-> a] :
        l \in {0, TruncateLimit, TruncateLimit + 1}, a \in {"ok", "raise"}}
    \cup {[len |-> 0, is_str |-> FALSE, api |-> "ok"]}

\* The lists of texts; the tag of an item is its position.
TextLists ==
    UNION {{[i \in 1..n |-> [tag |-> i, len |-> items[i].len,
                             is_str |-> items[i].is_str, api |-> items[i].api]] :
               items \in [1..n -> TextItems]}
           : n \in 0..MaxTexts}

\* response.data[0].embedding for the input the API was sent.
ApiVector(tag, sent) == <<tag, sent>>

\* [0.0] * 1536
ZeroVector == [i \in 1..EmbeddingDim |-> 0]

\* generate_embedding(text): the vector, or the exception re-raised by the
\* except clause, and what it logged.
GenerateEmbedding(t) ==
    IF ~t.is_str
    THEN [raised |-> TRUE, value |-> <<>>, log |-> <<"error: generating embedding">>]
    ELSE IF t.len > TruncateLimit
    THEN IF t.api = "raise"
         THEN [raised |-> TRUE, value |-> <<>>,
               log |-> <<"warning: truncating", "error: generating embedding">>]
         ELSE [raised |-> FALSE, value |-> ApiVector(t.tag, TruncateLimit),
               log |-> <<"warning: truncating">>]
    ELSE IF t.api = "raise"
         THEN [raised |-> TRUE, value |-> <<>>, log |-> <<"error: generating embedding">>]
         ELSE [raised |-> FALSE, value |-> ApiVector(t.tag, t.len), log |-> <<>>]

\* The loop body with the except clause left without its append.
StoreEmbeddingSkipFailed(embs, r) ==
    IF r.raised THEN embs ELSE Append(embs, r.value)

\* The body of the loop of batch_generate_embeddings on the outcome r of
\* generate_embedding: what `embeddings` becomes.
StoreEmbedding(embs, r) ==
    IF r.raised THEN Append(embs, ZeroVector) ELSE Append(embs, r.value)

\* What the body of the loop logs.
BatchLog(r) ==
    IF r.raised THEN r.log \o <<"error: generating embedding for text">> ELSE r.log

InitEmbed ==
    /\ embed_texts \in TextLists
    /\ embed_pos = 0
    /\ embed_out = <<>>
    /\ embed_log = <<>>
    /\ embed_pc = "call"
    /\ ChunkIdle
    /\ RankIdle
    /\ StreamIdle
    /\ PipelineIdle
    /\ ImportIdle
    /\ ParseIdle

\* embeddings = []
EmbedCall ==
    /\ embed_pc = "call"
    /\ embed_out' = <<>>
    /\ embed_pc' = "loop"
    /\ UNCHANGED <<embed_texts, embed_pos, embed_log>>
    /\ UNCHANGED notEmbed

EmbedItemDone(r) ==
    /\ embed_out' = StoreEmbedding(embed_out, r)
    /\ embed_log' = embed_log \o BatchLog(r)

\* One iteration of `for text in texts`.
EmbedItem ==
    /\ embed_pc = "loop"
    /\ embed_pos < Len(embed_texts)
    /\ EmbedItemDone(GenerateEmbedding(embed_texts[embed_pos + 1]))
    /\ embed_pos' = embed_pos + 1
    /\ UNCHANGED <<embed_texts, embed_pc>>
    /\ UNCHANGED notEmbed

\* return embeddings
EmbedReturn ==
    /\ embed_pc = "loop"
    /\ embed_pos = Len(embed_texts)
    /\ embed_pc' = "done"
    /\ UNCHANGED <<embed_texts, embed_pos, embed_out, embed_log>>
    /\ UNCHANGED notEmbed

NextEmbed == EmbedCall \/ EmbedItem \/ EmbedReturn

SpecEmbed == InitEmbed /\ [][NextEmbed]_vars

\* Whether embedding the item fails: it is no str, or the API call raises.
EmbeddingFails(t) == ~t.is_str \/ t.api = "raise"

\* C19: the list built by batch_generate_embeddings has one entry per text
\* gone through, so its length at return is the length of the input; entry i
\* is the embedding of texts[i] (of its first 30000 characters when it is
\* longer), or a vector of 1536 zeros when embedding texts[i] failed,
\* whatever happened at the other positions; the call never ends raising.
C19_BatchKeepsLengthAndPositions ==
    /\ embed_pc \in {"idle", "call", "loop", "done"}
    /\ Len(embed_out) = embed_pos
    /\ embed_pc = "done" => Len(embed_out) = Len(embed_texts)
    /\ \A i \in 1..Len(embed_out) :
          IF EmbeddingFails(embed_texts[i])
          THEN /\ Len(embed_out[i]) = 1536
               /\ \A k \in 1..1536 : embed_out[i][k] = 0
          ELSE embed_out[i] = <<i, Min(embed_texts[i].len, TruncateLimit)>>

\* A returned batch of three whose second text failed between two that were
\* embedded.
C19_Witness ==
    /\ embed_pc = "done"
    /\ Len(embed_texts) = 3
    /\ ~EmbeddingFails(embed_texts[1])
    /\ EmbeddingFails(embed_texts[2])
    /\ ~EmbeddingFails(embed_texts[3])
    /\ Len(embed_out) = 3
    /\ embed_out[2] = ZeroVector
    /\ embed_out[1] # ZeroVector
    /\ embed_out[3] # ZeroVector

====
